---- MODULE Spec2Model ----
(***************************************************************************)
(* pykythe: the two passes of src/pykythe over one source file.            *)
(*                                                                         *)
(*   cook     ast_raw.cvt_*        concrete tree  -> cooked tree           *)
(*   resolve  ast_cooked.*.fqns    cooked tree    -> cooked tree with FQNs *)
(*   emit     ast_cooked.*.anchors resolved tree  -> anchor sequence       *)
(*                                                                         *)
(* Representation.                                                         *)
(*  - A concrete-tree node is a record with a field t (the grammar symbol).*)
(*    The single-child wrappers of the expression grammar (test, or_test,  *)
(*    ..., power with one child) hand ctx unchanged to their child         *)
(*    (cvt_test, cvt_binary_op, cvt_unary_op, cvt_comparison, cvt_power)   *)
(*    and are not represented; punctuation tokens are not represented.     *)
(*  - A string built by the code (an FQN, a dot-prefix) is the sequence of *)
(*    its dot-separated segments; a segment is a tuple: <<"x">> for a name,*)
(*    <<"<local>">>, <<"<comp_for>", line, col>>, <<"<lambda>", line, col>>*)
(*    The prefix "a.b." is << <<"a">>, <<"b">> >>; None and "" are <<>>.   *)
(*  - An OrderedDict is a sequence without repeated keys, in insertion     *)
(*    order; a ChainMap is the sequence of its maps, innermost first.      *)
(*  - A dict that the code mutates in place is threaded through the        *)
(*    operators: cook operators take and return the scope's accumulators   *)
(*    (st), resolve operators take and return the frame chain (rs).        *)
(*  - A failed Python assert or cast raises; it is recorded in st.err /    *)
(*    the err variable and the pipeline stops there.                       *)
(***************************************************************************)
EXTENDS Integers, Sequences, FiniteSets, TLC

VARIABLES pc, python_version, module, source, parse_tree, line_offsets,
          cooked, resolved, trace, out, err, run, first

vars == <<pc, python_version, module, source, parse_tree, line_offsets,
          cooked, resolved, trace, out, err, run, first>>

(***************************************************************************)
(* Bounds of the input programs.                                           *)
(***************************************************************************)
NumVars == 2
NumDefs == 1

VarPool == <<"x", "y", "g", "z">>
ClassPool == <<"Foo", "Bar", "Baz">>
FuncPool == <<"bar", "foo", "baz">>

Vars == {VarPool[i] : i \in 1..NumVars}
DefIdx == 1..NumDefs

\* len() of the token texts the input programs use; "e_acute" stands for the
\* one-character identifier U+00E9, which is two bytes in UTF-8
StrLen(s) ==
  CASE s \in {"x", "y", "g", "z", "f", "m", "a", "e_acute"} -> 1
    [] s \in {"Foo", "Bar", "Baz", "bar", "foo", "baz", "pkg", "mod", "for"} -> 3
    [] s \in {"self"} -> 4
    [] s \in {"range"} -> 5
    [] s \in {"lambda"} -> 6
    [] OTHER -> 2

(***************************************************************************)
(* Strings as segment sequences.                                           *)
(***************************************************************************)
Seg(s) == <<s>>
NoFqn == <<>>

\* str + name, for a str that ends in '.'
Dot(fqn_dot, name) == Append(fqn_dot, Seg(name))

\* fqn.startswith(prefix)
StartsWith(fqn, prefix) ==
  /\ Len(prefix) <= Len(fqn)
  /\ SubSeq(fqn, 1, Len(prefix)) = prefix

(***************************************************************************)
(* OrderedDict / ChainMap.                                                 *)
(***************************************************************************)
Keys(d) == {d[i].k : i \in 1..Len(d)}
HasKey(d, k) == \E i \in 1..Len(d) : d[i].k = k
Get(d, k) == d[CHOOSE i \in 1..Len(d) : d[i].k = k].v

\* d[k] = v
Put(d, k, v) ==
  IF HasKey(d, k)
  THEN [i \in 1..Len(d) |-> IF d[i].k = k THEN [k |-> k, v |-> v] ELSE d[i]]
  ELSE Append(d, [k |-> k, v |-> v])

\* variant: every registration is appended
AddName_append(names, k) == Append(names, k)

\* a set of names kept as the keys of an OrderedDict: names[k] = None
AddName(names, k) ==
  IF \E i \in 1..Len(names) : names[i] = k THEN names ELSE Append(names, k)
InNames(names, k) == \E i \in 1..Len(names) : names[i] = k

RECURSIVE AddNames(_, _)
AddNames(names, ks) ==
  IF ks = <<>> THEN names ELSE AddNames(AddName(names, Head(ks)), Tail(ks))

\* name in chain_map
ChainHas(maps, k) == \E i \in 1..Len(maps) : HasKey(maps[i], k)
\* chain_map[name]: the first map that has the key
ChainGet(maps, k) ==
  Get(maps[CHOOSE i \in 1..Len(maps) :
             /\ HasKey(maps[i], k)
             /\ \A j \in 1..(i - 1) : ~HasKey(maps[j], k)], k)
\* chain_map[name] = v writes maps[0]
ChainPut(maps, k, v) == [maps EXCEPT ![1] = Put(maps[1], k, v)]
\* chain_map.new_child(m)
NewChild(maps, m) == <<m>> \o maps

\* chain_map.update((name, fqn_dot + name) for name in scope_bindings)
RECURSIVE ChainUpdate(_, _, _)
ChainUpdate(maps, fqn_dot, names) ==
  IF names = <<>> THEN maps
  ELSE ChainUpdate(ChainPut(maps, Head(names), Dot(fqn_dot, Head(names))),
                   fqn_dot, Tail(names))

\* variant: an OrderedDict() with nothing in it
SeedFrame_empty(fqn_dot, names) == <<>>

\* OrderedDict((name, fqn_dot + name) for name in scope_bindings)
SeedFrame(fqn_dot, names) ==
  [i \in 1..Len(names) |-> [k |-> names[i], v |-> Dot(fqn_dot, names[i])]]

(***************************************************************************)
(* The concrete tree (lib2to3.pytree): constructors of the nodes the cook  *)
(* reads.  A leaf carries its text and its line and column.                *)
(***************************************************************************)
Leaf(v, l, c) == [t |-> "NAME", value |-> v, lineno |-> l, column |-> c]
Number == [t |-> "NUMBER"]
Absent == [t |-> "None"]
\* power: atom trailer*
Power(atom, trailers) == [t |-> "power", atom |-> atom, trailers |-> trailers]
\* trailer: '.' NAME | '(' [arglist] ')' | '[' subscriptlist ']'
TrDot(name) == [t |-> "trailer", k |-> ".", name |-> name]
TrCall(args) == [t |-> "trailer", k |-> "(", args |-> args]
TrSub(subs) == [t |-> "trailer", k |-> "[", subs |-> subs]
\* subscript: test
Subscript(test) == [t |-> "subscript", test |-> test]
\* argument: test | test '=' test | test comp_for
Arg(test) == [t |-> "argument", k |-> "test", test |-> test, value |-> Absent]
ArgKw(test, value) == [t |-> "argument", k |-> "=", test |-> test, value |-> value]
\* atom: '(' [testlist_gexp] ')' | '[' [listmaker] ']'
Atom(open, inner) == [t |-> "atom", open |-> open, inner |-> inner]
\* listmaker / testlist_gexp: items, or one item and a comp_for
ListMaker(items, comp_for) ==
  [t |-> "listmaker", items |-> items, comp_for |-> comp_for]
TestlistGexp(items, comp_for) ==
  [t |-> "testlist_gexp", items |-> items, comp_for |-> comp_for]
\* comp_for: 'for' exprlist 'in' testlist_safe [comp_iter]
CompFor(for_leaf, exprlist, in_test, comp_iter) ==
  [t |-> "comp_for", for_leaf |-> for_leaf, exprlist |-> exprlist,
   in_test |-> in_test, comp_iter |-> comp_iter]
\* comp_if: 'if' old_test [comp_iter]
CompIf(test, comp_iter) == [t |-> "comp_if", test |-> test, comp_iter |-> comp_iter]
\* exprlist / testlist_star_expr: items; comma: a trailing comma is present
ExprList(items, comma) == [t |-> "exprlist", items |-> items, comma |-> comma]
\* arith_expr (and the other binary rules): two or more operands
ArithExpr(args) == [t |-> "arith_expr", args |-> args]
\* expr_stmt: testlist_star_expr ('=' testlist_star_expr)*
ExprStmt(targets, value) ==
  [t |-> "expr_stmt", k |-> "=", targets |-> targets, value |-> value]
\* expr_stmt: testlist_star_expr augassign testlist
AugStmt(target, value) ==
  [t |-> "expr_stmt", k |-> "+=", targets |-> <<target>>, value |-> value]
\* star_expr: '*' expr
StarExpr(expr) == [t |-> "star_expr", expr |-> expr]
\* with_stmt: 'with' with_item (',' with_item)* ':' suite;
\* with_item: test ['as' expr]
WithItem(test, as) == [t |-> "with_item", test |-> test, as |-> as]
WithStmtTree(with_items, suite) ==
  [t |-> "with_stmt", with_items |-> with_items, suite |-> suite]
\* global_stmt: ('global' | 'nonlocal') NAME (',' NAME)*
GlobalStmt(kw, names) == [t |-> "global_stmt", kw |-> kw, names |-> names]
\* tname: NAME [':' test];  typedargslist item: tname ['=' test]
Param(name, default) == [t |-> "tname", name |-> name, default |-> default]
\* funcdef: 'def' NAME parameters ['->' test] ':' suite
FuncDef(name, params, return_type, suite) ==
  [t |-> "funcdef", name |-> name, params |-> params,
   return_type |-> return_type, suite |-> suite]
\* lambdef: 'lambda' [varargslist] ':' test
Lambdef(kw, params, body) ==
  [t |-> "lambdef", kw |-> kw, params |-> params, body |-> body]
\* classdef: 'class' NAME ['(' [arglist] ')'] ':' suite
ClassDef(name, bases, suite) ==
  [t |-> "classdef", name |-> name, bases |-> bases, suite |-> suite]
\* import_name: 'import' dotted_as_names;  dotted_as_name: dotted_name ['as' NAME]
DottedAsName(dotted, as) == [t |-> "dotted_as_name", dotted |-> dotted, as |-> as]
ImportName(names) == [t |-> "import_name", names |-> names]
\* import_from: 'from' dotted_name 'import' import_as_names
ImportAsName(name, as) == [t |-> "import_as_name", name |-> name, as |-> as]
ImportFrom(from_name, names) ==
  [t |-> "import_from", from_name |-> from_name, names |-> names]
\* decorated: decorators (classdef | funcdef);  decorator: '@' dotted_name NEWLINE
Decorator(dotted) == [t |-> "decorator", dotted |-> dotted]
Decorated(decorators, defn) ==
  [t |-> "decorated", decorators |-> decorators, defn |-> defn]
\* return_stmt: 'return' [testlist]
ReturnStmt(value) == [t |-> "return_stmt", value |-> value]
\* file_input: stmt*
FileInputTree(stmts) == [t |-> "file_input", stmts |-> stmts]

(***************************************************************************)
(* ast.File                                                                *)
(***************************************************************************)
RECURSIVE SumTo(_, _)
SumTo(lens, n) == IF n = 0 THEN 0 ELSE SumTo(lens, n - 1) + lens[n]

\* line_offsets[lineno]: the offset of the first character of the line;
\* lens[i] is the number of characters of line i with its '\n'
make_file(lens) == [lineno \in 1..(Len(lens) + 1) |-> SumTo(lens, lineno - 1)]

\* variant: the offset of the line, without the column
astn_to_range_line(src_file, astn) ==
  LET offset == src_file[astn.lineno]
  IN  [value |-> astn.value, start |-> offset, end |-> offset + StrLen(astn.value),
       lineno |-> astn.lineno, column |-> astn.column]

astn_to_range(src_file, astn) ==
  LET offset == src_file[astn.lineno] + astn.column
  IN  [value |-> astn.value, start |-> offset, end |-> offset + StrLen(astn.value),
       lineno |-> astn.lineno, column |-> astn.column]

(***************************************************************************)
(* ast_raw: the cook.                                                      *)
(*                                                                         *)
(* Ctx.scope_bindings, Ctx.global_vars and Ctx.nonlocal_vars are           *)
(* references to dicts that the cvt functions update in place.  A          *)
(* reference is the <<line, column>> of the token that opens the scope     *)
(* (<<0, 0>> for the file); st.sb, st.gv and st.nv map a reference to the  *)
(* dict's keys, in insertion order.  Every cvt operator takes st and       *)
(* returns [n |-> the cooked node, st |-> the dicts afterwards].  A cooked *)
(* node's scope_bindings field holds the reference, as in the code.        *)
(* st.err is "" until an assert or an xcast fails.                         *)
(***************************************************************************)
FileRef == <<0, 0>>
RefOf(leaf) == <<leaf.lineno, leaf.column>>

Fail(st, why) == [st EXCEPT !.err = IF @ = "" THEN why ELSE @]
\* assert cond
AssertThat(cond, st) == IF cond THEN st ELSE Fail(st, "AssertionError")
\* typing_debug.cast(typ, value)
xcast(typ, r) == [r EXCEPT !.st = AssertThat(r.n.t = typ, @)]

new_ctx(version, src_file, ref) ==
  [name_ctx |-> "REF", scope_bindings |-> ref, global_vars |-> ref,
   nonlocal_vars |-> ref, python_version |-> version,
   src_file |-> src_file]
\* variant: dicts that outlive the run, taken again where they exist
new_dicts_shared(st, ref) ==
  IF HasKey(st.sb, ref) THEN st
  ELSE [st EXCEPT !.sb = Put(@, ref, <<>>), !.gv = Put(@, ref, <<>>),
                  !.nv = Put(@, ref, <<>>)]

\* the three OrderedDict() that new_ctx allocates
new_dicts(st, ref) ==
  [st EXCEPT !.sb = Put(@, ref, <<>>), !.gv = Put(@, ref, <<>>),
             !.nv = Put(@, ref, <<>>)]
new_ctx_from(ctx, ref) == new_ctx(ctx.python_version, ctx.src_file, ref)

\* dataclasses.replace(ctx, name_ctx=name_ctx)
replace_name_ctx(ctx, name_ctx) == [ctx EXCEPT !.name_ctx = name_ctx]

OMITTED_NODE == [t |-> "OmittedNode"]
ListNode(cls, items) == [t |-> cls, items |-> items]

RECURSIVE cvt(_, _, _)
RECURSIVE cvt_children(_, _, _)

cvt_name_ctx(name_ctx, node, ctx, st) == cvt(node, replace_name_ctx(ctx, name_ctx), st)

cvt_token_name(node, ctx, st) ==
  LET name_astn == astn_to_range(ctx.src_file, node)
      Node(cls) == [t |-> cls, name |-> name_astn, fqn |-> NoFqn,
                    scope |-> ctx.scope_bindings]
      \* the visit of a name in Binding mode, kept for the properties
      Visit(cls, after) ==
        [cls |-> cls, value |-> node.value, astn |-> name_astn,
         scope |-> ctx.scope_bindings,
         global_vars |-> Get(st.gv, ctx.global_vars),
         nonlocal_vars |-> Get(st.nv, ctx.nonlocal_vars),
         before |-> Get(st.sb, ctx.scope_bindings), after |-> after]
  IN  IF ctx.name_ctx = "BINDING"
      THEN IF /\ ~InNames(Get(st.gv, ctx.global_vars), node.value)
              /\ ~InNames(Get(st.nv, ctx.nonlocal_vars), node.value)
           THEN LET names == AddName(Get(st.sb, ctx.scope_bindings), node.value)
                IN  [n |-> Node("NameBindsNode"),
                     st |-> [st EXCEPT !.sb = Put(@, ctx.scope_bindings, names),
                                       !.log = Append(@, Visit("NameBindsNode", names))]]
           ELSE [n |-> Node("NameRefNode"),
                 st |-> [st EXCEPT !.log =
                           Append(@, Visit("NameRefNode",
                                           Get(st.sb, ctx.scope_bindings)))]]
      ELSE IF ctx.name_ctx = "REF"
      THEN [n |-> Node("NameRefNode"), st |-> st]
      ELSE [n |-> Node("NameRawNode"), st |-> st]

cvt_token_number(node, ctx, st) ==
  [n |-> [t |-> "NumberNode"], st |-> AssertThat(ctx.name_ctx = "REF", st)]

cvt_children_skip_commas_tuple(node, ctx, st) ==
  IF Len(node.items) = 1 /\ ~node.comma
  THEN cvt(node.items[1], ctx, st)
  ELSE LET r == cvt_children(node.items, ctx, st)
       IN  [n |-> ListNode("ExprListNode", r.n), st |-> r.st]

cvt_arglist(args, ctx, st) ==
  LET r == cvt_children(args, ctx, AssertThat(ctx.name_ctx = "REF", st))
  IN  [n |-> ListNode("RawArgListNode", r.n), st |-> r.st]

cvt_argument(node, ctx, st) ==
  LET st0 == AssertThat(ctx.name_ctx = "REF", st)
  IN  IF node.k = "test" THEN cvt(node.test, ctx, st0)
      ELSE LET name_cvt == cvt(node.test, ctx, st0)
               arg == cvt(node.value, ctx, name_cvt.st)
           IN  IF name_cvt.n.t = "NameRefNode"
               THEN [n |-> [t |-> "ArgumentNode", name |-> name_cvt.n.name,
                            items |-> <<arg.n>>],
                     st |-> arg.st]
               ELSE arg

cvt_subscript(node, ctx, st) ==
  LET expr1 == cvt(node.test, ctx, AssertThat(ctx.name_ctx = "REF", st))
  IN  [n |-> ListNode("SubscriptNode", <<expr1.n, OMITTED_NODE, OMITTED_NODE>>),
       st |-> expr1.st]

cvt_subscriptlist(subs, ctx, st) ==
  LET r == cvt_children(subs, replace_name_ctx(ctx, "REF"), st)
  IN  [n |-> ListNode("RawSubscriptListNode", r.n), st |-> r.st]

\* variant: the NAME of '.' NAME cooked in the name_ctx of the trailer
cvt_trailer_ambient(node, ctx, st) ==
  IF node.k = "("
  THEN cvt_arglist(node.args, replace_name_ctx(ctx, "REF"), st)
  ELSE IF node.k = "["
  THEN cvt_subscriptlist(node.subs, replace_name_ctx(ctx, "REF"), st)
  ELSE LET name == cvt(node.name, ctx, st)
       IN  [n |-> [t |-> "DotNameTrailerNode",
                   binds |-> (ctx.name_ctx = "BINDING"), name |-> name.n],
            st |-> name.st]

cvt_trailer(node, ctx, st) ==
  IF node.k = "("
  THEN IF node.args = <<>>
       THEN [n |-> ListNode("RawArgListNode", <<>>), st |-> st]
       ELSE xcast("RawArgListNode",
                  cvt_arglist(node.args, replace_name_ctx(ctx, "REF"), st))
  ELSE IF node.k = "["
  THEN xcast("RawSubscriptListNode",
             cvt_subscriptlist(node.subs, replace_name_ctx(ctx, "REF"), st))
  ELSE LET name == xcast("NameRawNode", cvt_name_ctx("RAW", node.name, ctx, st))
       IN  [n |-> [t |-> "DotNameTrailerNode",
                   binds |-> (ctx.name_ctx = "BINDING"), name |-> name.n],
            st |-> name.st]

\* variant: the atom and every trailer cooked in the name_ctx of the power
cvt_power_ambient(node, ctx, st) ==
  IF node.trailers = <<>> THEN cvt(node.atom, ctx, st)
  ELSE LET atom == cvt(node.atom, ctx, st)
           trailers == cvt_children(node.trailers, ctx, atom.st)
       IN  [n |-> ListNode("AtomTrailerNode", <<atom.n>> \o trailers.n),
            st |-> trailers.st]

cvt_power(node, ctx, st) ==
  IF node.trailers = <<>> THEN cvt(node.atom, ctx, st)
  ELSE LET trailer_ctx == replace_name_ctx(ctx, "REF")
           k == Len(node.trailers)
           atom == cvt(node.atom, trailer_ctx, st)
           trailers == cvt_children(SubSeq(node.trailers, 1, k - 1),
                                    trailer_ctx, atom.st)
           last == cvt(node.trailers[k], ctx, trailers.st)
       IN  [n |-> ListNode("AtomTrailerNode",
                           <<atom.n>> \o trailers.n \o <<last.n>>),
            st |-> last.st]

DictGenListSetMakerCompForNode(value_expr, comp_for) ==
  [n |-> [t |-> "DictGenListSetMakerCompForNode", value_expr |-> value_expr.n,
          comp_for |-> comp_for.n],
   st |-> comp_for.st]

cvt_atom(node, ctx, st) ==
  IF node.inner.t # "None" THEN cvt(node.inner, ctx, st)
  ELSE IF node.open = "["
  THEN [n |-> ListNode("ListMakerNode", <<>>), st |-> st]
  ELSE [n |-> ListNode("ExprListNode", <<>>), st |-> st]

cvt_listmaker(node, ctx, st) ==
  LET st0 == AssertThat(ctx.name_ctx = "REF", st)
  IN  IF node.comp_for.t # "None"
      THEN LET value_expr == cvt(node.items[1], ctx, st0)
           IN  DictGenListSetMakerCompForNode(
                 value_expr,
                 xcast("CompForNode", cvt(node.comp_for, ctx, value_expr.st)))
      ELSE LET r == cvt_children(node.items, ctx, st0)
           IN  [n |-> ListNode("ListMakerNode", r.n), st |-> r.st]

cvt_testlist_gexp(node, ctx, st) ==
  IF node.comp_for.t # "None"
  THEN LET value_expr == cvt(node.items[1], ctx, st)
       IN  DictGenListSetMakerCompForNode(
             value_expr,
             xcast("CompForNode", cvt(node.comp_for, ctx, value_expr.st)))
  ELSE cvt_children_skip_commas_tuple(
         [items |-> node.items, comma |-> FALSE], ctx, st)

cvt_comp_for(node, ctx, st) ==
  LET in_testlist == cvt(node.in_test, ctx, AssertThat(ctx.name_ctx = "REF", st))
      ref == RefOf(node.for_leaf)
      ctx_for == IF ctx.python_version = 2 THEN ctx
                 ELSE [ctx EXCEPT !.scope_bindings = ref]
      st_for == IF ctx.python_version = 2 THEN in_testlist.st
                ELSE [in_testlist.st EXCEPT !.sb = Put(@, ref, <<>>)]
      for_exprlist == cvt_name_ctx("BINDING", node.exprlist, ctx_for, st_for)
      comp_iter == IF node.comp_iter.t # "None"
                   THEN cvt(node.comp_iter, ctx_for, for_exprlist.st)
                   ELSE [n |-> OMITTED_NODE, st |-> for_exprlist.st]
  IN  [n |-> [t |-> "CompForNode",
              astn |-> astn_to_range(ctx.src_file, node.for_leaf),
              for_exprlist |-> for_exprlist.n, in_testlist |-> in_testlist.n,
              comp_iter |-> comp_iter.n,
              scope_bindings |-> ctx_for.scope_bindings],
       \* the binding sets before and after, kept for the properties
       st |-> [comp_iter.st EXCEPT
                 !.comps = Append(@, [ref |-> ctx_for.scope_bindings,
                                      outer |-> ctx.scope_bindings,
                                      before |-> st.sb,
                                      after |-> comp_iter.st.sb])]]

cvt_comp_if(node, ctx, st) ==
  LET value_expr == cvt(node.test, ctx, AssertThat(ctx.name_ctx = "REF", st))
      comp_iter == IF node.comp_iter.t # "None"
                   THEN cvt(node.comp_iter, ctx, value_expr.st)
                   ELSE [n |-> OMITTED_NODE, st |-> value_expr.st]
  IN  [n |-> [t |-> "CompIfCompIterNode", value_expr |-> value_expr.n,
              comp_iter |-> comp_iter.n],
       st |-> comp_iter.st]

\* the first operand is cooked before the assert
cvt_binary_op(node, ctx, st) ==
  LET result == cvt(node.args[1], ctx, st)
      rest == cvt_children(Tail(node.args), ctx,
                           AssertThat(ctx.name_ctx = "REF", result.st))
  IN  IF Len(node.args) = 1 THEN result
      ELSE [n |-> ListNode("OpNode", <<result.n>> \o rest.n), st |-> rest.st]

cvt_expr_stmt(node, ctx, st) ==
  LET st0 == AssertThat(ctx.name_ctx = "REF", st)
      expr == cvt(node.value, ctx, st0)
      left_ctx == replace_name_ctx(ctx, "BINDING")
      left_list == cvt_children(node.targets, left_ctx, expr.st)
      \* modifies left; REF context
      left_augassign == cvt(node.targets[1], ctx, expr.st)
  IN  IF node.k = "="
      THEN [n |-> ListNode("AssignMultipleExprStmt", left_list.n \o <<expr.n>>),
            st |-> left_list.st]
      ELSE [n |-> ListNode("AugAssignStmt", <<left_augassign.n, expr.n>>),
            st |-> left_augassign.st]

cvt_star_expr(node, ctx, st) ==
  cvt(node.expr, ctx, AssertThat(ctx.name_ctx = "REF", st))

\* variant: a declared name is taken out of the binding set
cvt_global_stmt_unbinding(node, ctx, st) ==
  LET names == cvt_children(node.names, ctx, AssertThat(ctx.name_ctx = "REF", st))
      values == {names.n[i].name.value : i \in 1..Len(names.n)}
      Kept(k) == k \notin values
  IN  [n |-> ListNode("GlobalStmt", names.n),
       st |-> [names.st EXCEPT
                 !.gv = Put(@, ctx.global_vars,
                            AddNames(Get(@, ctx.global_vars),
                                     [i \in 1..Len(names.n) |-> names.n[i].name.value])),
                 !.sb = Put(@, ctx.scope_bindings,
                            SelectSeq(Get(@, ctx.scope_bindings), Kept))]]

cvt_global_stmt(node, ctx, st) ==
  LET names == cvt_children(node.names, ctx, AssertThat(ctx.name_ctx = "REF", st))
      values == [i \in 1..Len(names.n) |-> names.n[i].name.value]
      st1 == AssertThat(\A i \in 1..Len(names.n) : names.n[i].t = "NameRefNode",
                        names.st)
  IN  IF node.kw = "global"
      THEN [n |-> ListNode("GlobalStmt", names.n),
            st |-> [st1 EXCEPT !.gv =
                      Put(@, ctx.global_vars,
                          AddNames(Get(@, ctx.global_vars), values))]]
      ELSE [n |-> ListNode("NonLocalStmt", names.n),
            st |-> [st1 EXCEPT !.nv =
                      Put(@, ctx.nonlocal_vars,
                          AddNames(Get(@, ctx.nonlocal_vars), values))]]

cvt_return_stmt(node, ctx, st) ==
  LET st0 == AssertThat(ctx.name_ctx = "REF", st)
  IN  IF node.value.t # "None" THEN cvt(node.value, ctx, st0)
      ELSE [n |-> OMITTED_NODE, st |-> st0]

cvt_suite(stmts, ctx, st) ==
  LET r == cvt_children(stmts, ctx, AssertThat(ctx.name_ctx = "REF", st))
  IN  [n |-> ListNode("Stmts", r.n), st |-> r.st]

cvt_with_item(node, ctx, st) ==
  LET item == cvt(node.test, ctx, AssertThat(ctx.name_ctx = "REF", st))
      as_item == IF node.as.t = "None" THEN [n |-> OMITTED_NODE, st |-> item.st]
                 ELSE cvt(node.as, ctx, item.st)
  IN  [n |-> ListNode("WithItemNode", <<item.n, as_item.n>>), st |-> as_item.st]

cvt_with_stmt(node, ctx, st) ==
  LET with_items == cvt_children(node.with_items, ctx,
                                 AssertThat(ctx.name_ctx = "REF", st))
      suite == cvt_suite(node.suite, ctx, with_items.st)
  IN  [n |-> ListNode("WithStmt", with_items.n \o <<suite.n>>), st |-> suite.st]

cvt_tname(node, ctx, st) ==
  LET name == cvt(node.name, ctx, AssertThat(ctx.name_ctx = "BINDING", st))
  IN  [n |-> ListNode("TnameNode", <<name.n, OMITTED_NODE>>), st |-> name.st]

RECURSIVE cvt_typedargslist(_, _, _)
cvt_typedargslist(params, ctx, st) ==
  IF params = <<>>
  THEN [n |-> <<>>, st |-> AssertThat(ctx.name_ctx = "REF", st)]
  ELSE LET tname == xcast("TnameNode", cvt_tname(params[1], replace_name_ctx(ctx, "BINDING"), st))
           expr == IF params[1].default.t # "None"
                   THEN cvt(params[1].default, ctx, tname.st)
                   ELSE [n |-> OMITTED_NODE, st |-> tname.st]
           rest == cvt_typedargslist(Tail(params), ctx, expr.st)
       IN  [n |-> <<ListNode("TypedArgNode", <<tname.n, expr.n>>)>> \o rest.n,
            st |-> rest.st]

cvt_parameters(params, ctx, st) ==
  IF params # <<>> THEN cvt_typedargslist(params, ctx, AssertThat(ctx.name_ctx = "REF", st))
  ELSE [n |-> <<>>, st |-> AssertThat(ctx.name_ctx = "REF", st)]

FuncDefStmt(name, parameters, return_type, suite, scope_bindings) ==
  [t |-> "FuncDefStmt", name |-> name, parameters |-> parameters,
   return_type |-> return_type, suite |-> suite,
   scope_bindings |-> scope_bindings]

cvt_funcdef(node, ctx, st) ==
  LET name == xcast("NameBindsNode",
                    cvt_name_ctx("BINDING", node.name, ctx,
                                 AssertThat(ctx.name_ctx = "REF", st)))
      st1 == [name.st EXCEPT !.sb =
                Put(@, ctx.scope_bindings,
                    AddName(Get(@, ctx.scope_bindings), name.n.name.value))]
      ref == RefOf(node.name)
      ctx_func == new_ctx_from(ctx, ref)
      parameters == cvt_parameters(node.params, ctx_func, new_dicts(st1, ref))
      return_type == IF node.return_type.t # "None"
                     THEN cvt(node.return_type, ctx, parameters.st)
                     ELSE [n |-> OMITTED_NODE, st |-> parameters.st]
      suite == cvt_suite(node.suite, ctx_func, return_type.st)
  IN  [n |-> FuncDefStmt(name.n, parameters.n, return_type.n, suite.n,
                         ctx_func.scope_bindings),
       st |-> suite.st]

cvt_lambdef(node, ctx, st) ==
  LET name == xcast("NameBindsNode",
                    cvt_name_ctx("BINDING", node.kw, ctx,
                                 AssertThat(ctx.name_ctx = "REF", st)))
      ref == RefOf(node.kw)
      ctx_func == new_ctx_from(ctx, ref)
      parameters == IF node.params # <<>>
                    THEN cvt_typedargslist(node.params, ctx_func,
                                           new_dicts(name.st, ref))
                    ELSE [n |-> <<>>, st |-> new_dicts(name.st, ref)]
      suite == cvt(node.body, ctx_func, parameters.st)
  IN  [n |-> FuncDefStmt(name.n, parameters.n, OMITTED_NODE, suite.n,
                         ctx_func.scope_bindings),
       st |-> suite.st]

cvt_classdef(node, ctx, st) ==
  LET name == xcast("NameBindsNode",
                    cvt_name_ctx("BINDING", node.name, ctx,
                                 AssertThat(ctx.name_ctx = "REF", st)))
      ref == RefOf(node.name)
      ctx_class == new_ctx_from(ctx, ref)
      bases == IF node.bases # <<>>
               THEN xcast("RawArgListNode",
                          cvt_arglist(node.bases, ctx_class, new_dicts(name.st, ref)))
               ELSE [n |-> ListNode("RawArgListNode", <<>>),
                     st |-> new_dicts(name.st, ref)]
      suite == cvt_suite(node.suite, ctx_class, bases.st)
  IN  [n |-> [t |-> "ClassDefStmt", name |-> name.n, bases |-> bases.n.items,
              suite |-> suite.n, scope_bindings |-> ctx_class.scope_bindings],
       st |-> suite.st]

\* variant: the segments cooked as references
cvt_dotted_name_ref(leaves, ctx, st) ==
  LET r == cvt_children(leaves, replace_name_ctx(ctx, "REF"), st)
  IN  [n |-> ListNode("DottedNameNode", r.n), st |-> r.st]

\* dotted_name: the leaves of NAME ('.' NAME)*
cvt_dotted_name(leaves, ctx, st) ==
  LET k == Len(leaves)
      front == cvt_children(SubSeq(leaves, 1, k - 1),
                            replace_name_ctx(ctx, "RAW"), st)
      last == cvt(leaves[k], ctx, front.st)
  IN  [n |-> ListNode("DottedNameNode", front.n \o <<last.n>>), st |-> last.st]

cvt_dotted_as_name(node, ctx, st) ==
  LET dotted_name == xcast("DottedNameNode",
                           cvt_dotted_name(node.dotted, replace_name_ctx(ctx, "RAW"),
                                           AssertThat(ctx.name_ctx = "REF", st)))
  IN  IF node.as.t = "None"
      THEN [n |-> ListNode("ImportDottedAsNameNode", <<dotted_name.n>>),
            st |-> dotted_name.st]
      ELSE LET as_name == cvt_name_ctx("BINDING", node.as, ctx, dotted_name.st)
           IN  [n |-> ListNode("ImportDottedAsNameNode",
                               <<dotted_name.n, as_name.n>>),
                st |-> as_name.st]

cvt_import_name(node, ctx, st) ==
  LET r == cvt_children(node.names, ctx, AssertThat(ctx.name_ctx = "REF", st))
  IN  [n |-> ListNode("ImportNameNode",
                      <<ListNode("ImportDottedAsNamesNode", r.n)>>),
       st |-> r.st]

cvt_import_as_name(node, ctx, st) ==
  LET ch0_name == cvt_name_ctx("RAW", node.name, ctx,
                               AssertThat(ctx.name_ctx = "BINDING", st))
      as_name == IF node.as.t = "None"
                 THEN cvt_name_ctx("BINDING", node.name, ctx, ch0_name.st)
                 ELSE cvt_name_ctx("BINDING", node.as, ctx, ch0_name.st)
  IN  [n |-> ListNode("AsNameNode", <<ch0_name.n, as_name.n>>), st |-> as_name.st]

cvt_import_from(node, ctx, st) ==
  LET from_name == cvt_dotted_name(node.from_name, replace_name_ctx(ctx, "RAW"),
                                   AssertThat(ctx.name_ctx = "REF", st))
      names == cvt_children(node.names, replace_name_ctx(ctx, "BINDING"),
                            from_name.st)
  IN  [n |-> ListNode("ImportFromStmt",
                      <<from_name.n, ListNode("ImportAsNamesNode", names.n)>>),
       st |-> names.st]

\* decorator: '@' dotted_name NEWLINE
cvt_decorator(node, ctx, st) ==
  LET dotted_names == xcast("DottedNameNode",
                            cvt_dotted_name(node.dotted, replace_name_ctx(ctx, "RAW"),
                                            AssertThat(ctx.name_ctx = "REF", st)))
  IN  [n |-> ListNode("DecoratorNode",
                      <<ListNode("DecoratorDottedNameNode", dotted_names.n.items)>>),
       st |-> dotted_names.st]

cvt_decorated(node, ctx, st) ==
  LET st0 == AssertThat(ctx.name_ctx = "REF", st)
      decorators == cvt_children(node.decorators, ctx, st0)
      defn == cvt(node.defn, ctx, decorators.st)
  IN  [n |-> ListNode("DecoratedStmt",
                      <<ListNode("DecoratorsNode", decorators.n), defn.n>>),
       st |-> defn.st]

cvt_file_input(node, ctx, st) ==
  LET stmts == cvt_children(node.stmts, ctx, AssertThat(ctx.name_ctx = "REF", st))
  IN  [n |-> [t |-> "FileInput", stmts |-> stmts.n,
              scope_bindings |-> ctx.scope_bindings],
       st |-> stmts.st]

\* _DISPATCH[node.type](node, ctx)
cvt(node, ctx, st) ==
  CASE node.t = "NAME" -> cvt_token_name(node, ctx, st)
    [] node.t = "NUMBER" -> cvt_token_number(node, ctx, st)
    [] node.t = "power" -> cvt_power(node, ctx, st)
    [] node.t = "trailer" -> cvt_trailer(node, ctx, st)
    [] node.t = "argument" -> cvt_argument(node, ctx, st)
    [] node.t = "subscript" -> cvt_subscript(node, ctx, st)
    [] node.t = "atom" -> cvt_atom(node, ctx, st)
    [] node.t = "listmaker" -> cvt_listmaker(node, ctx, st)
    [] node.t = "testlist_gexp" -> cvt_testlist_gexp(node, ctx, st)
    [] node.t = "comp_for" -> cvt_comp_for(node, ctx, st)
    [] node.t = "comp_if" -> cvt_comp_if(node, ctx, st)
    [] node.t = "exprlist" -> cvt_children_skip_commas_tuple(node, ctx, st)
    [] node.t = "arith_expr" -> cvt_binary_op(node, ctx, st)
    [] node.t = "expr_stmt" -> cvt_expr_stmt(node, ctx, st)
    [] node.t = "global_stmt" -> cvt_global_stmt(node, ctx, st)
    [] node.t = "return_stmt" -> cvt_return_stmt(node, ctx, st)
    [] node.t = "star_expr" -> cvt_star_expr(node, ctx, st)
    [] node.t = "with_item" -> cvt_with_item(node, ctx, st)
    [] node.t = "with_stmt" -> cvt_with_stmt(node, ctx, st)
    [] node.t = "funcdef" -> cvt_funcdef(node, ctx, st)
    [] node.t = "lambdef" -> cvt_lambdef(node, ctx, st)
    [] node.t = "classdef" -> cvt_classdef(node, ctx, st)
    [] node.t = "dotted_as_name" -> cvt_dotted_as_name(node, ctx, st)
    [] node.t = "import_name" -> cvt_import_name(node, ctx, st)
    [] node.t = "import_as_name" -> cvt_import_as_name(node, ctx, st)
    [] node.t = "import_from" -> cvt_import_from(node, ctx, st)
    [] node.t = "decorator" -> cvt_decorator(node, ctx, st)
    [] node.t = "decorated" -> cvt_decorated(node, ctx, st)
    [] node.t = "file_input" -> cvt_file_input(node, ctx, st)

\* [cvt(ch, ctx) for ch in node.children]
cvt_children(nodes, ctx, st) ==
  IF nodes = <<>> THEN [n |-> <<>>, st |-> st]
  ELSE LET head == cvt(Head(nodes), ctx, st)
           rest == cvt_children(Tail(nodes), ctx, head.st)
       IN  [n |-> <<head.n>> \o rest.n, st |-> rest.st]

(***************************************************************************)
(* ast_cooked: fqns, the resolve.                                          *)
(*                                                                         *)
(* FqnCtx.bindings is a ChainMap that fqns updates in place: it is rs.maps *)
(* (innermost map first), which every fqns operator takes and returns as   *)
(* [n |-> the node with its FQNs, rs |-> the state afterwards].  ctx is    *)
(* the rest of FqnCtx (fqn_dot, python_version) and dicts, the binding     *)
(* sets that the scope_bindings references of the cooked nodes point to.   *)
(* A child ChainMap shares its parents with the ChainMap it was made from: *)
(* Parents gives them back when the child is dropped.                      *)
(* rs.scopes and rs.uses record what was done, for the properties:         *)
(*   rs.scopes  [kind, ref, outer, prefix]: a node of this kind put the    *)
(*              names of binding set ref in a frame under prefix, in a ctx *)
(*              whose fqn_dot is outer                                     *)
(*   rs.uses    one entry per name looked up in the ChainMap, with the     *)
(*              maps of the ChainMap before and after                      *)
(*   rs.frames  [kind, ref, prefix, frame]: a class, a function, a lambda  *)
(*              or a comprehension made a child of the ChainMap with this  *)
(*              frame                                                      *)
(*   rs.pops    [kind, before, after]: the maps of the ctx of such a node  *)
(*              when the child was made and when the child was done with   *)
(***************************************************************************)
Parents(child_rs, rs) ==
  [child_rs EXCEPT !.maps = SubSeq(@, Len(@) - Len(rs.maps) + 1, Len(@))]

\* the ctx of the caller again, after the child made on pushed_rs was used
PopTo(child_rs, pushed_rs, kind) ==
  [Parents(child_rs, pushed_rs) EXCEPT
     !.pops = Append(@, [kind |-> kind, before |-> pushed_rs.maps,
                         after |-> Parents(child_rs, pushed_rs).maps])]

LogScope(rs, kind, ref, outer, prefix) ==
  [rs EXCEPT !.scopes = Append(@, [kind |-> kind, ref |-> ref, outer |-> outer,
                                   prefix |-> prefix])]

\* bindings.new_child(frame), recorded
NewChildOf(rs, kind, ref, prefix, frame) ==
  [rs EXCEPT !.maps = NewChild(@, frame),
             !.frames = Append(@, [kind |-> kind, ref |-> ref,
                                   prefix |-> prefix, frame |-> frame])]

RECURSIVE fqns(_, _, _)
RECURSIVE fqns_items(_, _, _)

\* variant: a name that is not found is put in the outermost map
NameNode_fqns_outermost(node, ctx, rs) ==
  LET name == node.name.value
      found == ChainHas(rs.maps, name)
      fqn == IF found THEN ChainGet(rs.maps, name) ELSE Dot(ctx.fqn_dot, name)
      maps == IF found THEN rs.maps
              ELSE [rs.maps EXCEPT ![Len(rs.maps)] = Put(@, name, fqn)]
  IN  [n |-> [node EXCEPT !.fqn = fqn],
       rs |-> [rs EXCEPT !.maps = maps,
                         !.uses = Append(@, [cls |-> node.t, astn |-> node.name,
                                             found |-> found, fqn |-> fqn,
                                             fqn_dot |-> ctx.fqn_dot,
                                             scope |-> node.scope,
                                             before |-> rs.maps,
                                             after |-> maps])]]

\* NameBindsNode and NameRefNode are NameNode with binds True and False
NameNode_fqns(node, ctx, rs) ==
  LET name == node.name.value
      found == ChainHas(rs.maps, name)
      fqn == IF found THEN ChainGet(rs.maps, name) ELSE Dot(ctx.fqn_dot, name)
      maps == IF found THEN rs.maps ELSE ChainPut(rs.maps, name, fqn)
  IN  [n |-> [node EXCEPT !.fqn = fqn],
       rs |-> [rs EXCEPT !.maps = maps,
                         !.uses = Append(@, [cls |-> node.t, astn |-> node.name,
                                             found |-> found, fqn |-> fqn,
                                             fqn_dot |-> ctx.fqn_dot,
                                             scope |-> node.scope,
                                             before |-> rs.maps,
                                             after |-> maps])]]

\* a NameRawNode is left as it is: no lookup, no insertion, no FQN
NameRawNode_fqns(node, ctx, rs) == [n |-> node, rs |-> rs]

DotNameTrailerNode_fqns(node, ctx, rs) ==
  LET name == fqns(node.name, ctx, rs)
  IN  [n |-> [node EXCEPT !.name = name.n], rs |-> name.rs]

\* variant: the items are left as they are
AstListNode_fqns_shallow(node, ctx, rs) == [n |-> node, rs |-> rs]

AstListNode_fqns(node, ctx, rs) ==
  LET items == fqns_items(node.items, ctx, rs)
  IN  [n |-> [node EXCEPT !.items = items.n], rs |-> items.rs]

\* class_fqn = ctx.fqn_dot + self.name.astn.value
class_fqn(ctx, astn) == Dot(ctx.fqn_dot, astn.value)

\* variant: the class's frame starts as an OrderedDict() with nothing in it
ClassDefStmt_fqns_unseeded(node, ctx, rs) ==
  LET fqn_dot == class_fqn(ctx, node.name.name)
      class_ctx == [ctx EXCEPT !.fqn_dot = fqn_dot]
      name == fqns(node.name, ctx,
                   LogScope(rs, "ClassDefStmt", node.scope_bindings,
                            ctx.fqn_dot, fqn_dot))
      bases == fqns_items(node.bases, ctx, name.rs)
      suite == fqns(node.suite, class_ctx,
                    NewChildOf(bases.rs, "ClassDefStmt", node.scope_bindings,
                               fqn_dot, <<>>))
  IN  [n |-> [node EXCEPT !.name = name.n, !.bases = bases.n, !.suite = suite.n],
       rs |-> PopTo(suite.rs, bases.rs, "ClassDefStmt")]

ClassDefStmt_fqns(node, ctx, rs) ==
  LET fqn_dot == class_fqn(ctx, node.name.name)
      class_ctx == [ctx EXCEPT !.fqn_dot = fqn_dot]
      frame == SeedFrame(fqn_dot, Get(ctx.dicts, node.scope_bindings))
      name == fqns(node.name, ctx,
                   LogScope(rs, "ClassDefStmt", node.scope_bindings,
                            ctx.fqn_dot, fqn_dot))
      bases == fqns_items(node.bases, ctx, name.rs)
      suite == fqns(node.suite, class_ctx,
                    NewChildOf(bases.rs, "ClassDefStmt", node.scope_bindings,
                               fqn_dot, frame))
  IN  [n |-> [node EXCEPT !.name = name.n, !.bases = bases.n, !.suite = suite.n],
       rs |-> PopTo(suite.rs, bases.rs, "ClassDefStmt")]

\* variant: a function's prefix without '<local>'
func_fqn_dot_no_local(ctx, astn) ==
  IF astn.value = "lambda"
  THEN Append(ctx.fqn_dot, <<"<lambda>", astn.lineno, astn.column>>)
  ELSE Dot(ctx.fqn_dot, astn.value)

func_fqn_dot(ctx, astn) ==
  IF astn.value = "lambda"
  THEN ctx.fqn_dot \o <<<<"<lambda>", astn.lineno, astn.column>>, <<"<local>">>>>
  ELSE ctx.fqn_dot \o <<Seg(astn.value), <<"<local>">>>>

FuncDefStmt_fqns(node, ctx, rs) ==
  LET fqn_dot == func_fqn_dot(ctx, node.name.name)
      func_ctx == [ctx EXCEPT !.fqn_dot = fqn_dot]
      frame == SeedFrame(fqn_dot, Get(ctx.dicts, node.scope_bindings))
      name == fqns(node.name, ctx,
                   LogScope(rs, "FuncDefStmt", node.scope_bindings,
                            ctx.fqn_dot, fqn_dot))
      parameters == fqns_items(node.parameters, func_ctx,
                               NewChildOf(name.rs, "FuncDefStmt",
                                          node.scope_bindings, fqn_dot, frame))
      return_type == fqns(node.return_type, ctx, 
                         PopTo(parameters.rs, name.rs, "FuncDefStmt"))
      suite == fqns(node.suite, func_ctx,
                    [return_type.rs EXCEPT
                       !.maps = NewChild(@, Head(parameters.rs.maps))])
  IN  [n |-> [node EXCEPT !.name = name.n, !.parameters = parameters.n,
                          !.return_type = return_type.n, !.suite = suite.n],
       rs |-> PopTo(suite.rs, return_type.rs, "FuncDefStmt")]

CompIfCompIterNode_fqns(node, ctx, rs) ==
  LET comp_iter == fqns(node.comp_iter, ctx, rs)
      value_expr == fqns(node.value_expr, ctx, comp_iter.rs)
  IN  [n |-> [node EXCEPT !.value_expr = value_expr.n, !.comp_iter = comp_iter.n],
       rs |-> value_expr.rs]

\* variant: a new child frame whatever the python_version
CompForNode_scope_ctx_isolating(node, ctx, rs) ==
  [ctx |-> [ctx EXCEPT !.fqn_dot =
              Append(@, <<"<comp_for>", node.astn.lineno, node.astn.column>>)],
   rs |-> NewChildOf(rs, "CompForNode", node.scope_bindings,
                     Append(ctx.fqn_dot,
                            <<"<comp_for>", node.astn.lineno, node.astn.column>>),
                     <<>>)]

\* returns the FqnCtx as [ctx |-> its fqn_dot and version, rs |-> its bindings]
CompForNode_scope_ctx(node, ctx, rs) ==
  IF ctx.python_version = 2
  THEN [ctx |-> ctx,
        rs |-> [rs EXCEPT !.maps =
                  ChainUpdate(@, ctx.fqn_dot, Get(ctx.dicts, node.scope_bindings))]]
  ELSE [ctx |-> [ctx EXCEPT !.fqn_dot =
                   Append(@, <<"<comp_for>", node.astn.lineno, node.astn.column>>)],
        rs |-> NewChildOf(rs, "CompForNode", node.scope_bindings,
                          Append(ctx.fqn_dot,
                                 <<"<comp_for>", node.astn.lineno, node.astn.column>>),
                          <<>>)]

CompForNode_fqns(node, ctx, rs) ==
  LET in_testlist == fqns(node.in_testlist, ctx, rs)
      names == Get(ctx.dicts, node.scope_bindings)
      rs1 == LogScope([in_testlist.rs EXCEPT
                         !.maps = ChainUpdate(@, ctx.fqn_dot, names)],
                      "CompForNode", node.scope_bindings, ctx.fqn_dot,
                      ctx.fqn_dot)
      for_exprlist == fqns(node.for_exprlist, ctx, rs1)
      comp_iter == fqns(node.comp_iter, ctx, for_exprlist.rs)
  IN  [n |-> [node EXCEPT !.for_exprlist = for_exprlist.n,
                          !.in_testlist = in_testlist.n,
                          !.comp_iter = comp_iter.n],
       rs |-> comp_iter.rs]

DictGenListSetMakerCompForNode_fqns(node, ctx, rs) ==
  LET comp_for_ctx == CompForNode_scope_ctx(node.comp_for, ctx, rs)
      comp_for == fqns(node.comp_for, comp_for_ctx.ctx, comp_for_ctx.rs)
      value_expr == fqns(node.value_expr, comp_for_ctx.ctx, comp_for.rs)
  IN  [n |-> [node EXCEPT !.value_expr = value_expr.n, !.comp_for = comp_for.n],
       rs |-> PopTo(value_expr.rs, rs, "CompForNode")]

FileInput_fqns(node, ctx, rs) ==
  LET frame == SeedFrame(ctx.fqn_dot, Get(ctx.dicts, node.scope_bindings))
      stmts == fqns_items(node.stmts, ctx,
                          LogScope([rs EXCEPT !.maps = NewChild(@, frame)],
                                   "FileInput", node.scope_bindings,
                                   ctx.fqn_dot, ctx.fqn_dot))
  IN  [n |-> [node EXCEPT !.stmts = stmts.n], rs |-> Parents(stmts.rs, rs)]

\* node.fqns(ctx)
fqns(node, ctx, rs) ==
  CASE node.t \in {"NameBindsNode", "NameRefNode"} -> NameNode_fqns(node, ctx, rs)
    [] node.t = "NameRawNode" -> NameRawNode_fqns(node, ctx, rs)
    [] node.t \in {"OmittedNode", "NumberNode"} -> [n |-> node, rs |-> rs]
    [] node.t = "DotNameTrailerNode" -> DotNameTrailerNode_fqns(node, ctx, rs)
    [] node.t = "ClassDefStmt" -> ClassDefStmt_fqns(node, ctx, rs)
    [] node.t = "FuncDefStmt" -> FuncDefStmt_fqns(node, ctx, rs)
    [] node.t = "CompIfCompIterNode" -> CompIfCompIterNode_fqns(node, ctx, rs)
    [] node.t = "CompForNode" -> CompForNode_fqns(node, ctx, rs)
    [] node.t = "DictGenListSetMakerCompForNode" ->
         DictGenListSetMakerCompForNode_fqns(node, ctx, rs)
    [] node.t = "FileInput" -> FileInput_fqns(node, ctx, rs)
    [] OTHER -> AstListNode_fqns(node, ctx, rs)

\* [item.fqns(ctx) for item in items]
fqns_items(items, ctx, rs) ==
  IF items = <<>> THEN [n |-> <<>>, rs |-> rs]
  ELSE LET head == fqns(Head(items), ctx, rs)
           rest == fqns_items(Tail(items), ctx, head.rs)
       IN  [n |-> <<head.n>> \o rest.n, rs |-> rest.rs]

(***************************************************************************)
(* ast_cooked: anchors, the emit.                                          *)
(*                                                                         *)
(* An anchors operator gives [a |-> the anchors the generator yields,      *)
(* err |-> "" or the exception that ends it].                              *)
(***************************************************************************)
Anchor(kind, astn, fqn) ==
  [kind |-> kind, start |-> astn.start, end |-> astn.end, fqn |-> fqn]

NoAnchors == [a |-> <<>>, err |-> ""]
\* yield from r1; yield from r2
Then(r1, r2) ==
  IF r1.err # "" THEN r1
  ELSE [a |-> r1.a \o r2.a, err |-> r2.err]
Raise(why) == [a |-> <<>>, err |-> why]

RECURSIVE anchors(_)
RECURSIVE anchors_items(_)

NameNode_anchors(node) ==
  IF node.t = "NameBindsNode"
  THEN IF node.fqn = NoFqn THEN Raise("AssertionError")
       ELSE [a |-> <<Anchor("BindingAnchor", node.name, node.fqn)>>, err |-> ""]
  ELSE IF node.fqn # NoFqn
       THEN [a |-> <<Anchor("RefAnchor", node.name, node.fqn)>>, err |-> ""]
       ELSE NoAnchors

\* a NameRawNode yields nothing
NameRawNode_anchors(node) == NoAnchors

DotNameTrailerNode_anchors(node) == anchors(node.name)

AstListNode_anchors(node) == anchors_items(node.items)

ClassDefStmt_anchors(node) ==
  IF node.name.t # "NameBindsNode" \/ node.name.fqn = NoFqn
  THEN Raise("AssertionError")
  ELSE Then([a |-> <<Anchor("ClassDefAnchor", node.name.name, node.name.fqn)>>,
             err |-> ""],
            Then(anchors_items(node.bases), anchors(node.suite)))

FuncDefStmt_anchors(node) ==
  IF node.name.t # "NameBindsNode" \/ node.name.fqn = NoFqn
  THEN Raise("AssertionError")
  ELSE Then([a |-> <<Anchor("FuncDefAnchor", node.name.name, node.name.fqn)>>,
             err |-> ""],
            Then(anchors_items(node.parameters),
                 Then(anchors(node.return_type), anchors(node.suite))))

CompIfCompIterNode_anchors(node) ==
  Then(anchors(node.value_expr), anchors(node.comp_iter))

CompForNode_anchors(node) ==
  Then(anchors(node.for_exprlist),
       Then(anchors(node.in_testlist), anchors(node.comp_iter)))

DictGenListSetMakerCompForNode_anchors(node) ==
  Then(anchors(node.value_expr), anchors(node.comp_for))

FileInput_anchors(node) == anchors_items(node.stmts)

\* node.anchors()
anchors(node) ==
  CASE node.t \in {"NameBindsNode", "NameRefNode"} -> NameNode_anchors(node)
    [] node.t = "NameRawNode" -> NameRawNode_anchors(node)
    [] node.t \in {"OmittedNode", "NumberNode"} -> NoAnchors
    [] node.t = "DotNameTrailerNode" -> DotNameTrailerNode_anchors(node)
    [] node.t = "ClassDefStmt" -> ClassDefStmt_anchors(node)
    [] node.t = "FuncDefStmt" -> FuncDefStmt_anchors(node)
    [] node.t = "CompIfCompIterNode" -> CompIfCompIterNode_anchors(node)
    [] node.t = "CompForNode" -> CompForNode_anchors(node)
    [] node.t = "DictGenListSetMakerCompForNode" ->
         DictGenListSetMakerCompForNode_anchors(node)
    [] node.t = "FileInput" -> FileInput_anchors(node)
    [] OTHER -> AstListNode_anchors(node)

anchors_items(items) ==
  IF items = <<>> THEN NoAnchors
  ELSE Then(anchors(Head(items)), anchors_items(Tail(items)))

(***************************************************************************)
(* The nodes of a cooked tree, in the order of anchors.                    *)
(***************************************************************************)
Children(node) ==
  CASE node.t \in {"NameBindsNode", "NameRefNode", "NameRawNode",
                   "OmittedNode", "NumberNode"} -> <<>>
    [] node.t = "DotNameTrailerNode" -> <<node.name>>
    [] node.t = "ClassDefStmt" -> <<node.name>> \o node.bases \o <<node.suite>>
    [] node.t = "FuncDefStmt" ->
         <<node.name>> \o node.parameters \o <<node.return_type, node.suite>>
    [] node.t = "CompIfCompIterNode" -> <<node.value_expr, node.comp_iter>>
    [] node.t = "CompForNode" ->
         <<node.for_exprlist, node.in_testlist, node.comp_iter>>
    [] node.t = "DictGenListSetMakerCompForNode" ->
         <<node.value_expr, node.comp_for>>
    [] node.t = "FileInput" -> node.stmts
    [] OTHER -> node.items

RECURSIVE Nodes(_)
RECURSIVE NodesOfAll(_)
Nodes(node) == <<node>> \o NodesOfAll(Children(node))
NodesOfAll(items) ==
  IF items = <<>> THEN <<>> ELSE Nodes(Head(items)) \o NodesOfAll(Tail(items))

(***************************************************************************)
(* The input files.  A source is the text of a file, given by its shape    *)
(* (kind) and the identifiers in it; Lines gives the number of characters  *)
(* of each line (with its newline) and Parse the concrete tree, leaves at  *)
(* their line (from 1) and column (from 0).  pre is the name that a first  *)
(* line `pre = 0` binds at module level, "" when there is no such line.    *)
(*                                                                         *)
(*   comp      [a for b in range(c)]                                       *)
(*   global    def fn():                                                   *)
(*               global a                                                  *)
(*               b = 1                                                     *)
(*   method    class cls:                                                  *)
(*               def fn(self):                                             *)
(*                 self.a = b                                              *)
(*                 return self.a.b[c]                                      *)
(*   imports   import a.b                                                  *)
(*             import a.b as c                                             *)
(*             from a.b import c                                           *)
(*             from a import b as c                                        *)
(*             @a.b                                                        *)
(*             def fn():                                                   *)
(*               return c                                                  *)
(*   bases     class cls(b(lambda: c), [a for a in b]):                    *)
(*               a = c                                                     *)
(*   func      def fn(a, z=c):                                             *)
(*               return lambda: a + b                                      *)
(*   comp2     def fn():                                                   *)
(*               return [a for b in c for a in b if c]                     *)
(*   kwarg     a(b.c=1)                                                    *)
(*             c = a                                                       *)
(*   optarget  a + b = 1                                                   *)
(*             c = a                                                       *)
(*   comp3     [a for b in c for z in a for a in b]                        *)
(*   twins     def fn():                                                   *)
(*               return a                                                  *)
(*             def sib():                                                  *)
(*               return b                                                  *)
(*   comp_global                                                           *)
(*             def fn():                                                   *)
(*               global a                                                  *)
(*               [b for b in c]                                            *)
(*   leak      [a for b in c]                                              *)
(*             b                                                           *)
(*   siblings  class cls:                                                  *)
(*               a = b                                                     *)
(*               def fn(self):                                             *)
(*                 return sib                                              *)
(*               def sib(self):                                            *)
(*                 return fn                                               *)
(*   shadow    pre = 0                                                     *)
(*             def fn(a, z=c):                                             *)
(*               b = c                                                     *)
(*               c = a                                                     *)
(*             b                                                           *)
(*   wide      e_acute = a                                                 *)
(*             b = e_acute                                                 *)
(*   late_global                                                           *)
(*             def fn():                                                   *)
(*               a = 1                                                     *)
(*               global b                                                  *)
(*               c = 1                                                     *)
(*               a = 2                                                     *)
(***************************************************************************)
Src(kind, pre, cls, fn, a, b, c) ==
  [kind |-> kind, pre |-> pre, cls |-> cls, fn |-> fn, a |-> a, b |-> b, c |-> c]

Classes == {ClassPool[i] : i \in DefIdx}
Funcs == {FuncPool[i] : i \in DefIdx}

Sources ==
  {Src("comp", pre, "", "", a, b, c) :
     pre \in Vars \cup {""}, a \in Vars, b \in Vars, c \in Vars}
  \cup {Src("global", pre, "", fn, a, b, "") :
     pre \in Vars \cup {""}, fn \in Funcs, a \in Vars, b \in Vars}
  \cup {Src("method", "", cls, fn, a, b, c) :
     cls \in Classes, fn \in Funcs, a \in Vars, b \in Vars, c \in Vars}
  \cup {Src("imports", "", "", fn, a, b, c) :
     fn \in Funcs, a \in Vars, b \in Vars, c \in Vars}
  \cup {Src("bases", "", cls, "", a, b, c) :
     cls \in Classes, a \in Vars, b \in Vars, c \in Vars}
  \cup {Src("func", "", "", fn, a, b, c) :
     fn \in Funcs, a \in Vars, b \in Vars, c \in Vars}
  \cup {Src("comp2", "", "", fn, a, b, c) :
     fn \in Funcs, a \in Vars, b \in Vars, c \in Vars}
  \cup {Src(kind, "", "", "", a, b, c) :
     kind \in {"kwarg", "optarget"}, a \in Vars, b \in Vars, c \in Vars}
  \cup {Src("shadow", pre, "", fn, a, b, c) :
     pre \in Vars, fn \in Funcs, a \in Vars, b \in Vars, c \in Vars}
  \cup {Src("siblings", "", cls, fn, a, b, "") :
     cls \in Classes, fn \in Funcs, a \in Vars, b \in Vars}
  \cup {Src("leak", "", "", "", a, b, c) : a \in Vars, b \in Vars, c \in Vars}
  \cup {Src("comp_global", "", "", fn, a, b, c) :
     fn \in Funcs, a \in Vars, b \in Vars, c \in Vars}
  \cup {Src("twins", "", "", fn, a, b, "") :
     fn \in Funcs, a \in Vars, b \in Vars}
  \cup {Src(kind, "", "", "", a, b, c) :
     kind \in {"augwith", "unpack", "listpat", "starpat", "attrs"},
     a \in Vars, b \in Vars, c \in Vars}
  \cup {Src(kind, "", "", fn, a, b, c) :
     kind \in {"def_global", "class_global", "import_dotted"}, fn \in Funcs,
     a \in Vars, b \in Vars, c \in Vars}
  \cup {Src("comp3", pre, "", "", a, b, c) :
     pre \in Vars \cup {""}, a \in Vars, b \in Vars, c \in Vars}
  \cup {Src("wide", "", "", "", a, b, "e_acute") : a \in Vars, b \in Vars}
  \cup {Src("late_global", "", "", fn, a, b, c) :
     fn \in Funcs, a \in Vars, b \in Vars, c \in Vars}

\* the number of lines before the body: the line `pre = 0`
PreLines(s) == IF s.pre = "" THEN 0 ELSE 1

Lines(s) ==
  (IF s.pre = "" THEN <<>> ELSE <<6>>) \o
  CASE s.kind = "comp" -> <<22>>
    [] s.kind = "global" -> <<11, 11, 8>>
    [] s.kind = "method" -> <<11, 17, 15, 23>>
    [] s.kind = "imports" -> <<11, 16, 18, 21, 5, 11, 11>>
    [] s.kind = "bases" -> <<41, 8>>
    [] s.kind = "func" -> <<17, 23>>
    [] s.kind = "comp2" -> <<11, 40>>
    [] s.kind = "kwarg" -> <<9, 6>>
    [] s.kind = "optarget" -> <<10, 6>>
    [] s.kind = "comp3" -> <<37>>
    [] s.kind = "twins" -> <<11, 11, 11, 11>>
    [] s.kind = "augwith" -> <<7, 13, 4>>
    [] s.kind = "unpack" -> <<18>>
    [] s.kind = "listpat" -> <<11>>
    [] s.kind = "starpat" -> <<10>>
    [] s.kind = "attrs" -> <<10, 9, 11>>
    [] s.kind = "import_dotted" -> <<11, 11, 11>>
    [] s.kind = "def_global" -> <<11, 11, 11, 13>>
    [] s.kind = "class_global" -> <<11, 11, 11, 10>>
    [] s.kind = "comp_global" -> <<11, 11, 17>>
    [] s.kind = "leak" -> <<15, 2>>
    [] s.kind = "siblings" -> <<11, 8, 17, 15, 17, 15>>
    [] s.kind = "shadow" -> <<17, 8, 8, 2>>
    [] s.kind = "wide" -> <<6, 6>>
    [] s.kind = "late_global" -> <<11, 8, 11, 8, 8>>

\* the columns of each line that hold a character of two bytes
WideColumns(s) ==
  [l \in 1..Len(Lines(s)) |->
     IF s.kind = "wide" THEN (IF l = 1 THEN {0} ELSE {4}) ELSE {}]

\* testlist_star_expr / testlist with one child
One(e) == ExprList(<<e>>, FALSE)

Body(s, L) ==
  CASE s.kind = "comp" ->
         <<ExprStmt(<<>>,
             Atom("[", ListMaker(<<Leaf(s.a, L + 1, 1)>>,
               CompFor(Leaf("for", L + 1, 3), One(Leaf(s.b, L + 1, 7)),
                 Power(Leaf("range", L + 1, 12),
                       <<TrCall(<<Arg(Leaf(s.c, L + 1, 18))>>)>>),
                 Absent))))>>
    [] s.kind = "global" ->
         <<FuncDef(Leaf(s.fn, L + 1, 4), <<>>, Absent,
             <<GlobalStmt("global", <<Leaf(s.a, L + 2, 9)>>),
               ExprStmt(<<One(Leaf(s.b, L + 3, 2))>>, Number)>>)>>
    [] s.kind = "method" ->
         <<ClassDef(Leaf(s.cls, L + 1, 6), <<>>,
             <<FuncDef(Leaf(s.fn, L + 2, 6),
                 <<Param(Leaf("self", L + 2, 10), Absent)>>, Absent,
                 <<ExprStmt(<<One(Power(Leaf("self", L + 3, 4),
                                        <<TrDot(Leaf(s.a, L + 3, 9))>>))>>,
                            Leaf(s.b, L + 3, 13)),
                   ReturnStmt(One(Power(Leaf("self", L + 4, 11),
                     <<TrDot(Leaf(s.a, L + 4, 16)), TrDot(Leaf(s.b, L + 4, 18)),
                       TrSub(<<Subscript(Leaf(s.c, L + 4, 20))>>)>>)))>>)>>)>>
    [] s.kind = "imports" ->
         <<ImportName(<<DottedAsName(<<Leaf(s.a, L + 1, 7), Leaf(s.b, L + 1, 9)>>,
                                     Absent)>>),
           ImportName(<<DottedAsName(<<Leaf(s.a, L + 2, 7), Leaf(s.b, L + 2, 9)>>,
                                     Leaf(s.c, L + 2, 14))>>),
           ImportFrom(<<Leaf(s.a, L + 3, 5), Leaf(s.b, L + 3, 7)>>,
                      <<ImportAsName(Leaf(s.c, L + 3, 16), Absent)>>),
           ImportFrom(<<Leaf(s.a, L + 4, 5)>>,
                      <<ImportAsName(Leaf(s.b, L + 4, 14), Leaf(s.c, L + 4, 19))>>),
           Decorated(<<Decorator(<<Leaf(s.a, L + 5, 1), Leaf(s.b, L + 5, 3)>>)>>,
             FuncDef(Leaf(s.fn, L + 6, 4), <<>>, Absent,
                     <<ReturnStmt(One(Leaf(s.c, L + 7, 9)))>>))>>
    [] s.kind = "bases" ->
         <<ClassDef(Leaf(s.cls, L + 1, 6),
             <<Arg(Power(Leaf(s.b, L + 1, 10),
                 <<TrCall(<<Arg(Lambdef(Leaf("lambda", L + 1, 12), <<>>,
                                        Leaf(s.c, L + 1, 20)))>>)>>)),
               Arg(Atom("[", ListMaker(<<Leaf(s.a, L + 1, 25)>>,
                 CompFor(Leaf("for", L + 1, 27), One(Leaf(s.a, L + 1, 31)),
                         Leaf(s.b, L + 1, 36), Absent))))>>,
             <<ExprStmt(<<One(Leaf(s.a, L + 2, 2))>>, Leaf(s.c, L + 2, 6))>>)>>
    [] s.kind = "func" ->
         <<FuncDef(Leaf(s.fn, L + 1, 4),
             <<Param(Leaf(s.a, L + 1, 8), Absent),
               Param(Leaf("z", L + 1, 11), Leaf(s.c, L + 1, 13))>>, Absent,
             <<ReturnStmt(One(Lambdef(Leaf("lambda", L + 2, 9), <<>>,
                 ArithExpr(<<Leaf(s.a, L + 2, 17), Leaf(s.b, L + 2, 21)>>))))>>)>>
    [] s.kind = "comp2" ->
         <<FuncDef(Leaf(s.fn, L + 1, 4), <<>>, Absent,
             <<ReturnStmt(One(Atom("[", ListMaker(<<Leaf(s.a, L + 2, 10)>>,
                 CompFor(Leaf("for", L + 2, 12), One(Leaf(s.b, L + 2, 16)),
                   Leaf(s.c, L + 2, 21),
                   CompFor(Leaf("for", L + 2, 23), One(Leaf(s.a, L + 2, 27)),
                     Leaf(s.b, L + 2, 32),
                     CompIf(Leaf(s.c, L + 2, 37), Absent)))))))>>)>>
    [] s.kind = "kwarg" ->
         <<ExprStmt(<<>>,
             Power(Leaf(s.a, L + 1, 0),
               <<TrCall(<<ArgKw(Power(Leaf(s.b, L + 1, 2),
                                      <<TrDot(Leaf(s.c, L + 1, 4))>>),
                                Number)>>)>>)),
           ExprStmt(<<One(Leaf(s.c, L + 2, 0))>>, Leaf(s.a, L + 2, 4))>>
    [] s.kind = "optarget" ->
         <<ExprStmt(<<One(ArithExpr(<<Leaf(s.a, L + 1, 0), Leaf(s.b, L + 1, 4)>>))>>,
                    Number),
           ExprStmt(<<One(Leaf(s.c, L + 2, 0))>>, Leaf(s.a, L + 2, 4))>>
    [] s.kind = "shadow" ->
         <<FuncDef(Leaf(s.fn, L + 1, 4),
             <<Param(Leaf(s.a, L + 1, 8), Absent),
               Param(Leaf("z", L + 1, 11), Leaf(s.c, L + 1, 13))>>, Absent,
             <<ExprStmt(<<One(Leaf(s.b, L + 2, 2))>>, Leaf(s.c, L + 2, 6)),
               ExprStmt(<<One(Leaf(s.c, L + 3, 2))>>, Leaf(s.a, L + 3, 6))>>),
           ExprStmt(<<>>, Leaf(s.b, L + 4, 0))>>
    [] s.kind = "siblings" ->
         <<ClassDef(Leaf(s.cls, L + 1, 6), <<>>,
             <<ExprStmt(<<One(Leaf(s.a, L + 2, 2))>>, Leaf(s.b, L + 2, 6)),
               FuncDef(Leaf(s.fn, L + 3, 6),
                 <<Param(Leaf("self", L + 3, 10), Absent)>>, Absent,
                 <<ReturnStmt(One(Leaf("sib", L + 4, 11)))>>),
               FuncDef(Leaf("sib", L + 5, 6),
                 <<Param(Leaf("self", L + 5, 10), Absent)>>, Absent,
                 <<ReturnStmt(One(Leaf(s.fn, L + 6, 11)))>>)>>)>>
    [] s.kind = "leak" ->
         <<ExprStmt(<<>>,
             Atom("[", ListMaker(<<Leaf(s.a, L + 1, 1)>>,
               CompFor(Leaf("for", L + 1, 3), One(Leaf(s.b, L + 1, 7)),
                 Leaf(s.c, L + 1, 12), Absent)))),
           ExprStmt(<<>>, Leaf(s.b, L + 2, 0))>>
    [] s.kind = "comp_global" ->
         <<FuncDef(Leaf(s.fn, L + 1, 4), <<>>, Absent,
             <<GlobalStmt("global", <<Leaf(s.a, L + 2, 9)>>),
               ExprStmt(<<>>,
                 Atom("[", ListMaker(<<Leaf(s.b, L + 3, 3)>>,
                   CompFor(Leaf("for", L + 3, 5), One(Leaf(s.b, L + 3, 9)),
                     Leaf(s.c, L + 3, 14), Absent))))>>)>>
    \* a += c / with c as b: / a
    [] s.kind = "augwith" ->
         <<AugStmt(One(Leaf(s.a, L + 1, 0)), Leaf(s.c, L + 1, 5)),
           WithStmtTree(<<WithItem(Leaf(s.c, L + 2, 5), Leaf(s.b, L + 2, 10))>>,
                        <<ExprStmt(<<>>, Leaf(s.a, L + 3, 2))>>)>>
    \* a = b, (c, z) = g
    [] s.kind = "unpack" ->
         <<ExprStmt(<<One(Leaf(s.a, L + 1, 0)),
                      ExprList(<<Leaf(s.b, L + 1, 4),
                                 Atom("(", TestlistGexp(<<Leaf(s.c, L + 1, 8),
                                                          Leaf("z", L + 1, 11)>>,
                                                        Absent))>>, FALSE)>>,
                    Leaf("g", L + 1, 16))>>
    \* [a, b] = c
    [] s.kind = "listpat" ->
         <<ExprStmt(<<One(Atom("[", ListMaker(<<Leaf(s.a, L + 1, 1),
                                                Leaf(s.b, L + 1, 4)>>, Absent)))>>,
                    Leaf(s.c, L + 1, 9))>>
    \* a, *b = c
    [] s.kind = "starpat" ->
         <<ExprStmt(<<ExprList(<<Leaf(s.a, L + 1, 0),
                                 StarExpr(Leaf(s.b, L + 1, 4))>>, FALSE)>>,
                    Leaf(s.c, L + 1, 8))>>
    \* a.b.c = z / a[b] = c / a.b[c] = z
    [] s.kind = "attrs" ->
         <<ExprStmt(<<One(Power(Leaf(s.a, L + 1, 0),
                                <<TrDot(Leaf(s.b, L + 1, 2)),
                                  TrDot(Leaf(s.c, L + 1, 4))>>))>>,
                    Leaf("z", L + 1, 8)),
           ExprStmt(<<One(Power(Leaf(s.a, L + 2, 0),
                                <<TrSub(<<Subscript(Leaf(s.b, L + 2, 2))>>)>>))>>,
                    Leaf(s.c, L + 2, 7)),
           ExprStmt(<<One(Power(Leaf(s.a, L + 3, 0),
                                <<TrDot(Leaf(s.b, L + 3, 2)),
                                  TrSub(<<Subscript(Leaf(s.c, L + 3, 4))>>)>>))>>,
                    Leaf("z", L + 3, 9))>>
    \* def fn(): / global a / def a(): / return b
    [] s.kind = "def_global" ->
         <<FuncDef(Leaf(s.fn, L + 1, 4), <<>>, Absent,
             <<GlobalStmt("global", <<Leaf(s.a, L + 2, 9)>>),
               FuncDef(Leaf(s.a, L + 3, 6), <<>>, Absent,
                       <<ReturnStmt(One(Leaf(s.b, L + 4, 11)))>>)>>)>>
    \* def fn(): / global a / class a: / b = c
    [] s.kind = "class_global" ->
         <<FuncDef(Leaf(s.fn, L + 1, 4), <<>>, Absent,
             <<GlobalStmt("global", <<Leaf(s.a, L + 2, 9)>>),
               ClassDef(Leaf(s.a, L + 3, 8), <<>>,
                        <<ExprStmt(<<One(Leaf(s.b, L + 4, 4))>>,
                                   Leaf(s.c, L + 4, 8))>>)>>)>>
    \* import a.b / def fn(): / return c
    [] s.kind = "import_dotted" ->
         <<ImportName(<<DottedAsName(<<Leaf(s.a, L + 1, 7), Leaf(s.b, L + 1, 9)>>,
                                     Absent)>>),
           FuncDef(Leaf(s.fn, L + 2, 4), <<>>, Absent,
                   <<ReturnStmt(One(Leaf(s.c, L + 3, 9)))>>)>>
    [] s.kind = "twins" ->
         <<FuncDef(Leaf(s.fn, L + 1, 4), <<>>, Absent,
             <<ReturnStmt(One(Leaf(s.a, L + 2, 9)))>>),
           FuncDef(Leaf("sib", L + 3, 4), <<>>, Absent,
             <<ReturnStmt(One(Leaf(s.b, L + 4, 9)))>>)>>
    [] s.kind = "comp3" ->
         <<ExprStmt(<<>>,
             Atom("[", ListMaker(<<Leaf(s.a, L + 1, 1)>>,
               CompFor(Leaf("for", L + 1, 3), One(Leaf(s.b, L + 1, 7)),
                 Leaf(s.c, L + 1, 12),
                 CompFor(Leaf("for", L + 1, 14), One(Leaf("z", L + 1, 18)),
                   Leaf(s.a, L + 1, 23),
                   CompFor(Leaf("for", L + 1, 25), One(Leaf(s.a, L + 1, 29)),
                     Leaf(s.b, L + 1, 34), Absent))))))>>
    [] s.kind = "wide" ->
         <<ExprStmt(<<One(Leaf(s.c, L + 1, 0))>>, Leaf(s.a, L + 1, 4)),
           ExprStmt(<<One(Leaf(s.b, L + 2, 0))>>, Leaf(s.c, L + 2, 4))>>
    [] s.kind = "late_global" ->
         <<FuncDef(Leaf(s.fn, L + 1, 4), <<>>, Absent,
             <<ExprStmt(<<One(Leaf(s.a, L + 2, 2))>>, Number),
               GlobalStmt("global", <<Leaf(s.b, L + 3, 9)>>),
               ExprStmt(<<One(Leaf(s.c, L + 4, 2))>>, Number),
               ExprStmt(<<One(Leaf(s.a, L + 5, 2))>>, Number)>>)>>

\* lib2to3's parse of the file
Parse(s) ==
  FileInputTree(
    (IF s.pre = "" THEN <<>>
     ELSE <<ExprStmt(<<One(Leaf(s.pre, 1, 0))>>, Number)>>)
    \o Body(s, PreLines(s)))

(***************************************************************************)
(* __main__.main: cook, resolve, emit.                                     *)
(*                                                                         *)
(* The passes are run a second time on the same concrete tree in the same  *)
(* process (Rerun; the parse is not run again): the dicts and the trees of *)
(* the first run are still there (cooked, resolved, trace and out keep     *)
(* their values until they are overwritten), and first holds the anchors   *)
(* of the first run.  Cook starts from the dicts that exist and allocates  *)
(* its own with new_ctx.                                                   *)
(***************************************************************************)
Modules == {<<Seg("pkg"), Seg("mod")>>, <<Seg("m")>>}

NoTrace == [scopes |-> <<>>, uses |-> <<>>, frames |-> <<>>, pops |-> <<>>]

Init ==
  /\ pc = "parsed"
  /\ python_version \in {2, 3}
  /\ module \in Modules
  /\ source \in Sources
  /\ parse_tree = Parse(source)
  /\ line_offsets = make_file(Lines(source))
  /\ cooked = [tree |-> OMITTED_NODE, dicts |-> <<>>, global_vars |-> <<>>,
               nonlocal_vars |-> <<>>, visits |-> <<>>, comps |-> <<>>]
  /\ resolved = OMITTED_NODE
  /\ trace = NoTrace
  /\ out = <<>>
  /\ err = ""
  /\ run = 1
  /\ first = <<>>

\* cooked_nodes = ast_raw.cvt_parse_tree(parse_tree, python_version, src_file)
Cook ==
  /\ pc = "parsed"
  /\ LET r == cvt(parse_tree, new_ctx(python_version, line_offsets, FileRef),
                  new_dicts([sb |-> cooked.dicts, gv |-> cooked.global_vars,
                             nv |-> cooked.nonlocal_vars, err |-> "",
                             log |-> <<>>, comps |-> <<>>],
                            FileRef))
     IN  /\ cooked' = [tree |-> r.n, dicts |-> r.st.sb,
                       global_vars |-> r.st.gv, nonlocal_vars |-> r.st.nv,
                       visits |-> r.st.log, comps |-> r.st.comps]
         /\ err' = r.st.err
         /\ pc' = IF r.st.err = "" THEN "cooked" ELSE "failed"
  /\ UNCHANGED <<python_version, module, source, parse_tree, line_offsets,
                 resolved, trace, out, run, first>>

\* add_fqns = cooked_nodes.add_fqns(fqn_ctx): the fqns of the cooked tree
Resolve ==
  /\ pc = "cooked"
  /\ LET fqn_ctx == [fqn_dot |-> module, python_version |-> python_version,
                     dicts |-> cooked.dicts]
         r == fqns(cooked.tree, fqn_ctx,
                   [maps |-> <<<<>>>>, scopes |-> <<>>, uses |-> <<>>,
                    frames |-> <<>>, pops |-> <<>>])
     IN  /\ resolved' = r.n
         /\ trace' = [scopes |-> r.rs.scopes, uses |-> r.rs.uses,
                      frames |-> r.rs.frames, pops |-> r.rs.pops]
  /\ pc' = "resolved"
  /\ UNCHANGED <<python_version, module, source, parse_tree, line_offsets,
                 cooked, out, err, run, first>>

\* the anchors generator of the resolved tree, consumed to its end
Emit ==
  /\ pc = "resolved"
  /\ LET r == anchors(resolved)
     IN  /\ out' = r.a
         /\ err' = r.err
         /\ pc' = IF r.err = "" THEN "emitted" ELSE "failed"
  /\ UNCHANGED <<python_version, module, source, parse_tree, line_offsets,
                 cooked, resolved, trace, run, first>>

\* the passes once more, on the same parse_tree, module and python_version
Rerun ==
  /\ pc = "emitted"
  /\ run = 1
  /\ pc' = "parsed"
  /\ run' = 2
  /\ first' = out
  /\ UNCHANGED <<python_version, module, source, parse_tree, line_offsets,
                 cooked, resolved, trace, out, err>>

Next == Cook \/ Resolve \/ Emit \/ Rerun

Spec == Init /\ [][Next]_vars

(***************************************************************************)
(* Properties.                                                             *)
(***************************************************************************)
\* fqns has run
Resolved == pc \in {"resolved", "emitted"}
\* anchors has run to its end
Emitted == pc = "emitted"

\* the name at line l, column c was looked up in the ChainMap
Looked(l, c) ==
  \E i \in 1..Len(trace.uses) :
    trace.uses[i].astn.lineno = l /\ trace.uses[i].astn.column = c
\* the FQN that the lookup of the name at line l, column c gave
FqnAt(l, c) ==
  trace.uses[CHOOSE i \in 1..Len(trace.uses) :
               trace.uses[i].astn.lineno = l /\ trace.uses[i].astn.column = c].fqn
\* the fqn_dot of the ctx in which the name at line l, column c was looked up
CtxAt(l, c) ==
  trace.uses[CHOOSE i \in 1..Len(trace.uses) :
               trace.uses[i].astn.lineno = l /\ trace.uses[i].astn.column = c].fqn_dot
\* the offset of line l, column c
Offset(l, c) == line_offsets[l] + c
\* some anchor starts at offset o
AnchorAt(o) == \E i \in 1..Len(out) : out[i].start = o
\* the number of anchors of this kind with the span of astn and this FQN
Count(kind, astn, fqn) ==
  Cardinality({i \in 1..Len(out) :
                 /\ out[i].kind = kind
                 /\ out[i].start = astn.start /\ out[i].end = astn.end
                 /\ out[i].fqn = fqn})
ResolvedNodes == Nodes(resolved)
\* the line of the body's first line
L1 == PreLines(source) + 1

\* C1: with python_version 3, in `[x for x in range(x)]` at module scope with
\* x not bound otherwise, the names of the iterable (range, x) are looked up
\* in the ctx of the module, before the comprehension's frame is pushed: the
\* iterable's x gets module + "x", the target and the yielded x get one FQN
\* under the comprehension's prefix, and the two FQNs differ.
C1_IterableInEnclosingScope ==
  (/\ Resolved /\ python_version = 3
   /\ source.kind = "comp" /\ source.pre = ""
   /\ source.a = source.b /\ source.b = source.c)
  => /\ CtxAt(1, 12) = module /\ CtxAt(1, 18) = module
     /\ FqnAt(1, 18) = Dot(module, source.c)
     /\ FqnAt(1, 7) = FqnAt(1, 1)
     /\ StartsWith(FqnAt(1, 7), Append(module, <<"<comp_for>", 1, 3>>))
     /\ FqnAt(1, 18) # FqnAt(1, 7)

\* C2: in `def f(): global g; g = 1` the g of `g = 1` resolves to module +
\* "g" and not to an FQN under module + f + ".<local>.", whether or not g is
\* bound at module level.
C2_GlobalResolvesToModule ==
  (Resolved /\ source.kind = "global" /\ source.a = source.b)
  => /\ FqnAt(L1 + 2, 2) = Dot(module, source.b)
     /\ ~StartsWith(FqnAt(L1 + 2, 2),
                    module \o <<Seg(source.fn), <<"<local>">>>>)

\* C3: with python_version 2, in `[x for x in range(x)]` at module scope the
\* three x (yielded, target, in the iterable) resolve to the one FQN
\* module + "x".
C3_LegacyLeak ==
  (/\ Resolved /\ python_version = 2 /\ source.kind = "comp"
   /\ source.a = source.b /\ source.b = source.c)
  => /\ FqnAt(L1, 1) = Dot(module, source.a)
     /\ FqnAt(L1, 7) = Dot(module, source.a)
     /\ FqnAt(L1, 18) = Dot(module, source.a)

C3_Witness ==
  /\ Resolved /\ python_version = 2 /\ source.kind = "comp"
  /\ source.pre = "" /\ source.a = "x" /\ source.b = "x" /\ source.c = "x"
  /\ Looked(1, 1) /\ Looked(1, 7) /\ Looked(1, 18)
  /\ FqnAt(1, 7) = Dot(module, "x")

\* C4: for module pkg.mod and `class Foo:` with `def bar(self):` whose body
\* reads self.x, Foo resolves to pkg.mod.Foo, bar to pkg.mod.Foo.bar, the
\* parameter self to pkg.mod.Foo.bar.<local>.self and every self of the body
\* to the parameter's FQN; a class's prefix is the enclosing prefix +
\* className + "." and a named function's is the enclosing prefix +
\* functionName + ".<local>.".
C4_ClassAndFunctionPrefix ==
  Resolved =>
    /\ source.kind = "method" =>
         LET cls == Dot(module, source.cls)
             fn == Dot(cls, source.fn)
             self == fn \o <<<<"<local>">>, Seg("self")>>
         IN  /\ FqnAt(1, 6) = cls
             /\ FqnAt(2, 6) = fn
             /\ FqnAt(2, 10) = self
             /\ FqnAt(3, 4) = self
             /\ FqnAt(4, 11) = self
    /\ \A i \in 1..Len(ResolvedNodes) : \A j \in 1..Len(trace.scopes) :
         LET n == ResolvedNodes[i]
             e == trace.scopes[j]
         IN  /\ (n.t = "ClassDefStmt" /\ e.kind = "ClassDefStmt"
                   /\ e.ref = n.scope_bindings)
                => e.prefix = Dot(e.outer, n.name.name.value)
             /\ (n.t = "FuncDefStmt" /\ e.kind = "FuncDefStmt"
                   /\ e.ref = n.scope_bindings /\ n.name.name.value # "lambda")
                => e.prefix = e.outer \o <<Seg(n.name.name.value), <<"<local>">>>>

C4_Witness ==
  /\ Resolved /\ module = <<Seg("pkg"), Seg("mod")>>
  /\ source.kind = "method" /\ source.cls = "Foo" /\ source.fn = "bar"
  /\ source.a = "x"
  /\ FqnAt(2, 10) = <<Seg("pkg"), Seg("mod"), Seg("Foo"), Seg("bar"),
                      <<"<local>">>, Seg("self")>>
  /\ FqnAt(4, 11) = FqnAt(2, 10)

C6_DefinitionYieldsBothAnchors ==
  Emitted =>
    \A i \in 1..Len(ResolvedNodes) :
      LET n == ResolvedNodes[i]
      IN  /\ n.t = "ClassDefStmt" =>
               /\ Count("ClassDefAnchor", n.name.name, n.name.fqn) = 1
               /\ Count("BindingAnchor", n.name.name, n.name.fqn) = 1
          /\ n.t = "FuncDefStmt" =>
               /\ Count("FuncDefAnchor", n.name.name, n.name.fqn) = 1
               /\ Count("BindingAnchor", n.name.name, n.name.fqn) = 1

\* C7: each NameBindsNode yields exactly one BindingAnchor with its span and
\* FQN; each NameRefNode with an FQN yields exactly one RefAnchor; a
\* NameRefNode without an FQN yields no anchor, and anchors does not fail.
C7_OccurrenceToAnchor ==
  (pc = "failed" => err = "") /\
  (Emitted =>
    \A i \in 1..Len(ResolvedNodes) :
      LET n == ResolvedNodes[i]
      IN  /\ n.t = "NameBindsNode" =>
               Count("BindingAnchor", n.name, n.fqn) = 1
          /\ (n.t = "NameRefNode" /\ n.fqn # NoFqn) =>
               Count("RefAnchor", n.name, n.fqn) = 1
          /\ (n.t = "NameRefNode" /\ n.fqn = NoFqn) =>
               ~AnchorAt(n.name.start))

\* a name cooked raw and left alone by fqns: no FQN, no lookup
RawUnresolved(r) ==
  /\ r.t = "NameRawNode"
  /\ r.fqn = NoFqn
  /\ ~\E i \in 1..Len(trace.uses) :
        trace.uses[i].astn = r.name /\ trace.uses[i].cls = r.t

C9_PrefixContainment ==
  Resolved =>
    \A i \in 1..Len(trace.uses) : \A j \in 1..Len(trace.scopes) :
      (/\ trace.uses[i].cls = "NameBindsNode"
       /\ trace.scopes[j].ref = trace.uses[i].scope)
      => StartsWith(trace.uses[i].fqn, trace.scopes[j].prefix)

C12_Tolerance ==
  source.kind \in {"kwarg", "optarget"} =>
    /\ pc # "failed"
    /\ Emitted =>
         /\ source.kind = "kwarg" =>
              /\ ~AnchorAt(Offset(1, 2)) /\ ~AnchorAt(Offset(1, 4))
              /\ AnchorAt(Offset(1, 0))
         /\ source.kind = "optarget" =>
              ~AnchorAt(Offset(1, 0)) /\ ~AnchorAt(Offset(1, 4))
         /\ AnchorAt(Offset(2, 0)) /\ AnchorAt(Offset(2, 4))

\* the tree with the fqn of every name set back to None
RECURSIVE WithoutFqns(_)
WithoutFqns(node) ==
  LET All(items) == [i \in 1..Len(items) |-> WithoutFqns(items[i])]
  IN  CASE node.t \in {"NameBindsNode", "NameRefNode", "NameRawNode"} ->
             [node EXCEPT !.fqn = NoFqn]
        [] node.t \in {"OmittedNode", "NumberNode"} -> node
        [] node.t = "DotNameTrailerNode" -> [node EXCEPT !.name = WithoutFqns(@)]
        [] node.t = "ClassDefStmt" ->
             [node EXCEPT !.name = WithoutFqns(@), !.bases = All(@),
                          !.suite = WithoutFqns(@)]
        [] node.t = "FuncDefStmt" ->
             [node EXCEPT !.name = WithoutFqns(@), !.parameters = All(@),
                          !.return_type = WithoutFqns(@), !.suite = WithoutFqns(@)]
        [] node.t = "CompIfCompIterNode" ->
             [node EXCEPT !.value_expr = WithoutFqns(@), !.comp_iter = WithoutFqns(@)]
        [] node.t = "CompForNode" ->
             [node EXCEPT !.for_exprlist = WithoutFqns(@),
                          !.in_testlist = WithoutFqns(@),
                          !.comp_iter = WithoutFqns(@)]
        [] node.t = "DictGenListSetMakerCompForNode" ->
             [node EXCEPT !.value_expr = WithoutFqns(@), !.comp_for = WithoutFqns(@)]
        [] node.t = "FileInput" -> [node EXCEPT !.stmts = All(@)]
        [] OTHER -> [node EXCEPT !.items = All(@)]

\* C13: fqns changes nothing but the fqn fields.  The tree it returns is the
\* cooked tree but for the fqn of its names (same nodes, same spans, same
\* classes, same scope_bindings), the cooked tree and the binding sets are
\* what they were before fqns ran, and every NameBindsNode of the result has
\* an FQN.
C13_ResolveChangesOnlyFqns ==
  /\ [][pc = "cooked" => cooked' = cooked]_vars
  /\ [](Resolved =>
         /\ WithoutFqns(resolved) = cooked.tree
         /\ \A i \in 1..Len(ResolvedNodes) :
              ResolvedNodes[i].t = "NameBindsNode" => ResolvedNodes[i].fqn # NoFqn)

C13_Witness ==
  /\ Resolved /\ source.kind = "bases"
  /\ resolved # cooked.tree
  /\ \E i \in 1..Len(ResolvedNodes) :
       /\ ResolvedNodes[i].t = "CompForNode"
       /\ Get(cooked.dicts, ResolvedNodes[i].scope_bindings) # <<>>
  /\ \E i \in 1..Len(ResolvedNodes) :
       ResolvedNodes[i].t = "NameBindsNode" /\ ResolvedNodes[i].fqn # NoFqn

\* len(text.encode('utf-8'))
ByteLen(v) == IF v = "e_acute" THEN 2 ELSE StrLen(v)
\* the offset of the first byte of the character at line l, column c
ByteOffset(l, c) ==
  LET wide == WideColumns(source)
      BytesOfLine(k) == Lines(source)[k] + Cardinality(wide[k])
      RECURSIVE Before(_)
      Before(k) == IF k = 0 THEN 0 ELSE Before(k - 1) + BytesOfLine(k)
  IN  Before(l - 1) + c + Cardinality({w \in wide[l] : w < c})

\* C14: the span of every token is in bytes: start is the offset of the
\* token's first byte in the source bytes and end the offset after its last
\* byte, also with multi-byte characters in the token or before it.
C14_ByteOffsets ==
  pc \in {"cooked", "resolved", "emitted"} =>
    \A i \in 1..Len(Nodes(cooked.tree)) :
      LET n == Nodes(cooked.tree)[i]
      IN  n.t \in {"NameBindsNode", "NameRefNode", "NameRawNode"} =>
            /\ n.name.start = ByteOffset(n.name.lineno, n.name.column)
            /\ n.name.end = n.name.start + ByteLen(n.name.value)

(***************************************************************************)
(* The scope of Python in which a bare name of the concrete tree occurs:   *)
(* LexNames gives [lineno, column, value, scope] for the bare names under  *)
(* node, scope being the token that opens the scope (<<0, 0>>: the file).  *)
(* The name of a def or a class, the bases of a class, the defaults of the *)
(* parameters and, with version 3, the iterable of the first for of a      *)
(* comprehension occur in the enclosing scope; with version 2 a            *)
(* comprehension is no scope.  Member names, keyword names and the dotted  *)
(* names of imports and decorators are not bare names.  The first for of a *)
(* comprehension and the keyword of a lambda are listed too, with the      *)
(* scope that holds the comprehension or the lambda.                       *)
(***************************************************************************)
RECURSIVE LexNames(_, _, _)
LexNames(node, scope, version) ==
  LET RECURSIVE All(_, _)
      All(items, sc) ==
        IF items = <<>> THEN <<>>
        ELSE LexNames(Head(items), sc, version) \o All(Tail(items), sc)
      Sub(n, sc) == LexNames(n, sc, version)
      RECURSIVE Trailers(_)
      Trailers(ts) ==
        IF ts = <<>> THEN <<>>
        ELSE (CASE Head(ts).k = "." -> <<>>
                [] Head(ts).k = "(" -> All(Head(ts).args, scope)
                [] Head(ts).k = "[" -> All(Head(ts).subs, scope))
             \o Trailers(Tail(ts))
      \* the clauses of a comprehension of scope cs
      RECURSIVE Clause(_, _, _)
      Clause(c, cs, is_first) ==
        CASE c.t = "None" -> <<>>
          [] c.t = "comp_if" -> Sub(c.test, cs) \o Clause(c.comp_iter, cs, FALSE)
          [] c.t = "comp_for" ->
               Sub(c.exprlist, cs)
               \o Sub(c.in_test, IF is_first THEN scope ELSE cs)
               \o Clause(c.comp_iter, cs, FALSE)
      Comp(items, comp_for) ==
        IF comp_for.t = "None" THEN All(items, scope)
        ELSE LET cs == IF version = 2 THEN scope ELSE RefOf(comp_for.for_leaf)
             IN  <<[lineno |-> comp_for.for_leaf.lineno,
                    column |-> comp_for.for_leaf.column,
                    value |-> "for", scope |-> scope]>>
                 \o All(items, cs) \o Clause(comp_for, cs, TRUE)
      RECURSIVE Params(_, _)
      Params(ps, fs) ==
        IF ps = <<>> THEN <<>>
        ELSE Sub(Head(ps).name, fs) \o Sub(Head(ps).default, scope)
             \o Params(Tail(ps), fs)
  IN  CASE node.t = "NAME" ->
             <<[lineno |-> node.lineno, column |-> node.column,
                value |-> node.value, scope |-> scope]>>
        [] node.t \in {"NUMBER", "None"} -> <<>>
        [] node.t = "power" -> Sub(node.atom, scope) \o Trailers(node.trailers)
        [] node.t = "subscript" -> Sub(node.test, scope)
        [] node.t = "argument" ->
             IF node.k = "test" THEN Sub(node.test, scope) ELSE Sub(node.value, scope)
        [] node.t = "atom" -> Sub(node.inner, scope)
        [] node.t \in {"listmaker", "testlist_gexp"} -> Comp(node.items, node.comp_for)
        [] node.t = "exprlist" -> All(node.items, scope)
        [] node.t = "arith_expr" -> All(node.args, scope)
        [] node.t = "expr_stmt" -> All(node.targets, scope) \o Sub(node.value, scope)
        [] node.t = "global_stmt" -> All(node.names, scope)
        [] node.t = "funcdef" ->
             Sub(node.name, scope) \o Params(node.params, RefOf(node.name))
             \o Sub(node.return_type, scope) \o All(node.suite, RefOf(node.name))
        [] node.t = "lambdef" ->
             <<[lineno |-> node.kw.lineno, column |-> node.kw.column,
                value |-> "lambda", scope |-> scope]>>
             \o Params(node.params, RefOf(node.kw)) \o Sub(node.body, RefOf(node.kw))
        [] node.t = "classdef" ->
             Sub(node.name, scope) \o All(node.bases, scope)
             \o All(node.suite, RefOf(node.name))
        [] node.t = "dotted_as_name" -> Sub(node.as, scope)
        [] node.t = "import_name" -> All(node.names, scope)
        [] node.t = "import_as_name" ->
             IF node.as.t = "None" THEN Sub(node.name, scope) ELSE Sub(node.as, scope)
        [] node.t = "import_from" -> All(node.names, scope)
        [] node.t = "decorator" -> <<>>
        [] node.t = "decorated" -> Sub(node.defn, scope)
        [] node.t = "return_stmt" -> Sub(node.value, scope)
        [] node.t = "star_expr" -> Sub(node.expr, scope)
        [] node.t = "with_item" -> Sub(node.test, scope) \o Sub(node.as, scope)
        [] node.t = "with_stmt" -> All(node.with_items, scope) \o All(node.suite, scope)
        [] node.t = "file_input" -> All(node.stmts, scope)

\* the bare names of the file, each with its scope
Lexical == LexNames(parse_tree, FileRef, python_version)

\* the uses i and j are of one name, directly in one scope
SameNameAndScope(i, j) ==
  /\ trace.uses[i].astn.value = trace.uses[j].astn.value
  /\ LET names == Lexical
     IN  \E k, l \in 1..Len(names) :
           /\ names[k].lineno = trace.uses[i].astn.lineno
           /\ names[k].column = trace.uses[i].astn.column
           /\ names[l].lineno = trace.uses[j].astn.lineno
           /\ names[l].column = trace.uses[j].astn.column
           /\ names[k].scope = names[l].scope

\* the first map of maps that has the key k
Innermost(maps, k) ==
  CHOOSE i \in 1..Len(maps) :
    HasKey(maps[i], k) /\ \A j \in 1..(i - 1) : ~HasKey(maps[j], k)

\* the lookup of use u went by the rule
LookupRule(u) ==
  LET name == u.astn.value
  IN  IF \E i \in 1..Len(u.before) : HasKey(u.before[i], name)
      THEN /\ u.fqn = Get(u.before[Innermost(u.before, name)], name)
           /\ u.after = u.before
      ELSE /\ u.fqn = Dot(u.fqn_dot, name)
           /\ Len(u.after) = Len(u.before)
           /\ u.after[1] = Append(u.before[1], [k |-> name, v |-> u.fqn])
           /\ \A i \in 2..Len(u.before) : u.after[i] = u.before[i]

\* C15: a bare name that is in a frame of the chain gets the FQN of the
\* innermost frame that has it, and no frame changes; a name in no frame
\* gets the ctx's prefix + name, and this one entry is added to the
\* innermost frame; so all the occurrences of one name directly in one
\* scope get one FQN.
C15_LookupInsertion ==
  Resolved =>
    /\ \A i \in 1..Len(trace.uses) : LookupRule(trace.uses[i])
    /\ \A i, j \in 1..Len(trace.uses) :
         SameNameAndScope(i, j) => trace.uses[i].fqn = trace.uses[j].fqn

\* names has no name twice
NoDuplicate(names) ==
  \A i, j \in 1..Len(names) : names[i] = names[j] => i = j

\* the visit v of a name in Binding mode went by the registration rule
Registration(v) ==
  IF InNames(v.global_vars, v.value) \/ InNames(v.nonlocal_vars, v.value)
  THEN v.cls = "NameRefNode" /\ v.after = v.before
  ELSE /\ v.cls = "NameBindsNode"
       /\ InNames(v.after, v.value)
       /\ NoDuplicate(v.after)
       /\ IF InNames(v.before, v.value) THEN v.after = v.before
          ELSE v.after = Append(v.before, v.value)

\* C16: a name visited in Binding mode that is in the declared-global or
\* declared-nonlocal set of the scope is cooked as a Reference and the
\* binding set stays as it was; any other name is in the binding set
\* afterwards and is cooked as a Binding; a name registered again keeps
\* its first position and the set gets no duplicate.
C16_NameRegistration ==
  \A i \in 1..Len(cooked.visits) : Registration(cooked.visits[i])

\* a cooked file with a declared-global name left as a Reference, a first
\* registration and a second registration of one name
C16_Witness ==
  /\ pc = "cooked"
  /\ \E i \in 1..Len(cooked.visits) :
       /\ cooked.visits[i].cls = "NameRefNode"
       /\ InNames(cooked.visits[i].global_vars, cooked.visits[i].value)
  /\ \E i \in 1..Len(cooked.visits) :
       /\ cooked.visits[i].cls = "NameBindsNode"
       /\ InNames(cooked.visits[i].before, cooked.visits[i].value)
  /\ \E i \in 1..Len(cooked.visits) :
       /\ cooked.visits[i].cls = "NameBindsNode"
       /\ ~InNames(cooked.visits[i].before, cooked.visits[i].value)

\* prefix is the prefix of a function, a lambda or a comprehension
InnerPrefix(prefix) == prefix[Len(prefix)][1] \in {"<local>", "<comp_for>"}

\* a lookup before use i, in the same ctx, did not find the name k
EarlierMiss(i, k) ==
  \E w \in 1..(i - 1) :
    /\ trace.uses[w].astn.value = k
    /\ ~trace.uses[w].found
    /\ trace.uses[w].fqn_dot = trace.uses[i].fqn_dot

\* k is in the binding set of the function, of the lambda or of a for
\* clause of the comprehension whose prefix it is
BoundUnder(prefix, k) ==
  \E j \in 1..Len(trace.scopes) :
    /\ trace.scopes[j].kind \in {"FuncDefStmt", "CompForNode"}
    /\ trace.scopes[j].prefix = prefix
    /\ InNames(Get(cooked.dicts, trace.scopes[j].ref), k)

\* C17, as the code has it: a function or a lambda gets a frame that maps
\* every name n of its binding set to its prefix + n; a comprehension of
\* version 3 gets an empty frame, and a target of a for clause is in the
\* frame, under the comprehension's prefix, when it is resolved; any other
\* name of such a frame was put there by a lookup in that scope that found
\* it in no frame.
C17_SeededFrames ==
  Resolved =>
    /\ \A i \in 1..Len(trace.frames) :
         LET f == trace.frames[i]
             names == Get(cooked.dicts, f.ref)
         IN  IF f.kind = "FuncDefStmt"
             THEN f.frame = [j \in 1..Len(names) |->
                               [k |-> names[j], v |-> Dot(f.prefix, names[j])]]
             ELSE f.kind = "CompForNode" => f.frame = <<>>
    /\ \A i \in 1..Len(trace.uses) :
         LET u == trace.uses[i]
         IN  InnerPrefix(u.fqn_dot) =>
               /\ \A j \in 1..Len(u.before[1]) :
                    LET e == u.before[1][j]
                    IN  \/ BoundUnder(u.fqn_dot, e.k) /\ e.v = Dot(u.fqn_dot, e.k)
                        \/ EarlierMiss(i, e.k)
               /\ (u.cls = "NameBindsNode" /\ BoundUnder(u.fqn_dot, u.astn.value))
                    => u.found /\ u.fqn = Dot(u.fqn_dot, u.astn.value)

\* a function whose frame starts with its parameter, a lambda in it whose
\* frame starts empty, and a name of the lambda's body found in the
\* function's frame
C17_Witness ==
  /\ Resolved
  /\ source.kind = "func"
  /\ \E i, j \in 1..Len(trace.frames) :
       /\ trace.frames[i].kind = "FuncDefStmt"
       /\ trace.frames[i].frame # <<>>
       /\ trace.frames[j].kind = "FuncDefStmt"
       /\ trace.frames[j].frame = <<>>
       /\ trace.frames[j].prefix # trace.frames[i].prefix
       /\ \E w \in 1..Len(trace.uses) :
            /\ trace.uses[w].fqn_dot = trace.frames[j].prefix
            /\ trace.uses[w].found
            /\ trace.uses[w].fqn = Dot(trace.frames[i].prefix,
                                       trace.uses[w].astn.value)

\* C17, as stated: a function, a lambda or a comprehension of version 3
\* gets an empty frame, and every name of such a frame was put there by a
\* lookup in that scope that found it in no frame.
C17_EmptyFrames ==
  Resolved =>
    /\ \A i \in 1..Len(trace.frames) :
         trace.frames[i].kind \in {"FuncDefStmt", "CompForNode"}
           => trace.frames[i].frame = <<>>
    /\ \A i \in 1..Len(trace.uses) :
         InnerPrefix(trace.uses[i].fqn_dot) =>
           \A j \in 1..Len(trace.uses[i].before[1]) :
             EarlierMiss(i, trace.uses[i].before[1][j].k)

\* the occurrence astn is directly in the scope that the token at ref opens
OccursIn(astn, ref) ==
  LET names == Lexical
  IN  \E k \in 1..Len(names) :
        /\ names[k].lineno = astn.lineno
        /\ names[k].column = astn.column
        /\ names[k].scope = ref

\* C18: a name n in the binding set of a function f and in the binding set
\* of the module has f's prefix + n, and not the module's, at every
\* occurrence directly in f, one that comes before the binding included;
\* at every occurrence at module level it has the module's prefix + n.
C18_Shadowing ==
  Resolved =>
    \A j \in 1..Len(trace.scopes) : \A i \in 1..Len(trace.uses) :
      LET f == trace.scopes[j]
          u == trace.uses[i]
          n == u.astn.value
      IN  (/\ f.kind = "FuncDefStmt"
           /\ InNames(Get(cooked.dicts, f.ref), n)
           /\ InNames(Get(cooked.dicts, FileRef), n))
          => /\ OccursIn(u.astn, f.ref) =>
                  u.fqn = Dot(f.prefix, n) /\ u.fqn # Dot(module, n)
             /\ OccursIn(u.astn, FileRef) => u.fqn = Dot(module, n)

\* use d is the name of a def that stands directly in the class of ref
MethodOf(d, ref) ==
  /\ \E j \in 1..Len(trace.scopes) :
       /\ trace.scopes[j].kind = "FuncDefStmt"
       /\ trace.scopes[j].ref = <<trace.uses[d].astn.lineno,
                                  trace.uses[d].astn.column>>
  /\ OccursIn(trace.uses[d].astn, ref)

\* C19: the frame that a class C under prefix P gets maps every name n of
\* C's binding set to P + C + "." + n, and every lookup under C's prefix
\* sees these entries; so a bare reference in one method of C to another
\* method of C, not bound in the method itself, has the FQN of that
\* method's definition, wherever the definition stands.
C19_ClassFrameSeeding ==
  Resolved =>
    \A i \in 1..Len(trace.frames) :
      LET f == trace.frames[i]
          names == Get(cooked.dicts, f.ref)
      IN  f.kind = "ClassDefStmt" =>
            /\ Len(f.frame) = Len(names)
            /\ \A j \in 1..Len(names) :
                 f.frame[j] = [k |-> names[j], v |-> Dot(f.prefix, names[j])]
            /\ \A u \in 1..Len(trace.uses) :
                 /\ (trace.uses[u].astn.lineno = f.ref[1]
                      /\ trace.uses[u].astn.column = f.ref[2])
                    => f.prefix = Dot(trace.uses[u].fqn_dot,
                                      trace.uses[u].astn.value)
                 /\ trace.uses[u].fqn_dot = f.prefix
                    => \A j \in 1..Len(names) :
                         /\ HasKey(trace.uses[u].before[1], names[j])
                         /\ Get(trace.uses[u].before[1], names[j])
                              = Dot(f.prefix, names[j])
            /\ \A d, m, r \in 1..Len(trace.uses) :
                 (/\ d # m
                  /\ trace.uses[r].cls = "NameRefNode"
                  /\ trace.uses[r].astn.value = trace.uses[d].astn.value
                  /\ MethodOf(d, f.ref) /\ MethodOf(m, f.ref)
                  /\ OccursIn(trace.uses[r].astn,
                              <<trace.uses[m].astn.lineno,
                                trace.uses[m].astn.column>>)
                  /\ ~InNames(Get(cooked.dicts,
                                  <<trace.uses[m].astn.lineno,
                                    trace.uses[m].astn.column>>),
                              trace.uses[r].astn.value))
                 => trace.uses[r].fqn = trace.uses[d].fqn

\* two methods of one class, each with a bare reference to the other: the
\* one before the other's definition and the one after it both have the
\* FQN class + "." + method
C19_Witness ==
  /\ Resolved
  /\ source.kind = "siblings"
  /\ Looked(4, 11) /\ Looked(6, 11)
  /\ FqnAt(4, 11) = module \o <<Seg(source.cls), Seg("sib")>>
  /\ FqnAt(5, 6) = module \o <<Seg(source.cls), Seg("sib")>>
  /\ FqnAt(6, 11) = module \o <<Seg(source.cls), Seg(source.fn)>>
  /\ FqnAt(3, 6) = module \o <<Seg(source.cls), Seg(source.fn)>>

\* the for clauses of the comprehension g
ClausesOf(g) ==
  LET IsFor(n) == n.t = "CompForNode"
  IN  SelectSeq(Nodes(g.comp_for), IsFor)

\* the NameBindsNode and NameRefNode under node
NamesIn(node) ==
  LET IsName(n) == n.t \in {"NameBindsNode", "NameRefNode"}
  IN  SelectSeq(Nodes(node), IsName)

\* those of them whose name is in bound
NamesOf(node, bound) ==
  LET IsBound(n) == n.name.value \in bound
  IN  SelectSeq(NamesIn(node), IsBound)

\* the targets of the for clause c
TargetsOf(c) ==
  LET IsBinds(n) == n.t = "NameBindsNode"
  IN  SelectSeq(NamesIn(c.for_exprlist), IsBinds)

\* the names that the for clauses from c on bind
RECURSIVE AllTargets(_)
AllTargets(c) ==
  CASE c.t = "CompForNode" ->
         {TargetsOf(c)[i].name.value : i \in 1..Len(TargetsOf(c))}
         \cup AllTargets(c.comp_iter)
    [] c.t = "CompIfCompIterNode" -> AllTargets(c.comp_iter)
    [] OTHER -> {}

\* from clause c on: the targets, and the names of the iterables of the for
\* clauses after the first and of the if conditions that an earlier for
\* clause binds (bound: the names bound before c)
RECURSIVE BoundEarlier(_, _, _)
BoundEarlier(c, bound, is_first) ==
  CASE c.t = "CompForNode" ->
         (IF is_first THEN <<>> ELSE NamesOf(c.in_testlist, bound))
         \o TargetsOf(c)
         \o BoundEarlier(c.comp_iter,
                         bound \cup {TargetsOf(c)[i].name.value :
                                       i \in 1..Len(TargetsOf(c))},
                         FALSE)
    [] c.t = "CompIfCompIterNode" ->
         NamesOf(c.value_expr, bound) \o BoundEarlier(c.comp_iter, bound, FALSE)
    [] OTHER -> <<>>

\* C20: with version 3, in a comprehension the targets, and every
\* occurrence, in the iterable of a for clause after the first, in an if
\* condition or in the yielded expression, of a name that an earlier for
\* clause binds, are looked up in the comprehension's own ctx and have the
\* comprehension's prefix + name, the FQN of the target; this for every
\* name in target position, whatever the cook made of it.
C20_ComprehensionClauses ==
  (Resolved /\ python_version = 3) =>
    \A i \in 1..Len(ResolvedNodes) :
      LET g == ResolvedNodes[i]
      IN  g.t = "DictGenListSetMakerCompForNode" =>
            \E j \in 1..Len(trace.frames) :
              LET f == trace.frames[j]
                  names == NamesOf(g.value_expr, AllTargets(g.comp_for))
                           \o BoundEarlier(g.comp_for, {}, TRUE)
              IN  /\ f.kind = "CompForNode"
                  /\ f.ref = g.comp_for.scope_bindings
                  /\ f.prefix[Len(f.prefix)] =
                       <<"<comp_for>", g.comp_for.astn.lineno,
                         g.comp_for.astn.column>>
                  /\ \A k \in 1..Len(names) :
                       /\ names[k].fqn = Dot(f.prefix, names[k].name.value)
                       /\ CtxAt(names[k].name.lineno, names[k].name.column)
                            = f.prefix
                  /\ \A c \in 1..Len(ClausesOf(g)) :
                       \A k \in 1..Len(NamesIn(ClausesOf(g)[c].for_exprlist)) :
                         LET n == NamesIn(ClausesOf(g)[c].for_exprlist)[k]
                         IN  n.fqn = Dot(f.prefix, n.name.value)

\* the cook is done
Cooked == pc \in {"cooked", "resolved", "emitted"}
CookedNodes == Nodes(cooked.tree)

\* the scope of Python that holds the comprehension g
EnclosingScope(g) ==
  LET names == Lexical
  IN  names[CHOOSE k \in 1..Len(names) :
              /\ names[k].value = "for"
              /\ names[k].lineno = g.comp_for.astn.lineno
              /\ names[k].column = g.comp_for.astn.column].scope

\* C21: with version 2 every name that a for clause of a comprehension
\* binds is in the binding set of the scope that holds the comprehension;
\* with version 3 it is registered in the binding set of its clause only,
\* which is not that of the enclosing scope, cooking the clause leaves the
\* enclosing scope's binding set as it was, and a reference to the name on
\* a later line of the enclosing scope does not get the comprehension's
\* prefix + name.
C21_BindingPlacement ==
  Cooked =>
    \A i \in 1..Len(CookedNodes) :
      LET g == CookedNodes[i]
      IN  g.t = "DictGenListSetMakerCompForNode" =>
            LET s == EnclosingScope(g)
            IN  IF python_version = 2
                THEN \A n \in AllTargets(g.comp_for) :
                       InNames(Get(cooked.dicts, s), n)
                ELSE /\ \A j \in 1..Len(ClausesOf(g)) :
                          LET c == ClausesOf(g)[j]
                          IN  /\ c.scope_bindings # s
                              /\ \A k \in 1..Len(TargetsOf(c)) :
                                   /\ InNames(Get(cooked.dicts, c.scope_bindings),
                                              TargetsOf(c)[k].name.value)
                                   /\ \A v \in 1..Len(cooked.visits) :
                                        cooked.visits[v].astn = TargetsOf(c)[k].name
                                          => cooked.visits[v].scope = c.scope_bindings
                              /\ \A e \in 1..Len(cooked.comps) :
                                   cooked.comps[e].ref = c.scope_bindings
                                     => Get(cooked.comps[e].before, s)
                                          = Get(cooked.comps[e].after, s)
                     /\ Resolved =>
                          \A u \in 1..Len(trace.uses) :
                            \A f \in 1..Len(trace.frames) :
                              (/\ trace.frames[f].kind = "CompForNode"
                               /\ trace.frames[f].ref = g.comp_for.scope_bindings
                               /\ trace.uses[u].astn.value \in AllTargets(g.comp_for)
                               /\ trace.uses[u].astn.lineno > g.comp_for.astn.lineno
                               /\ OccursIn(trace.uses[u].astn, s))
                              => trace.uses[u].fqn
                                   # Dot(trace.frames[f].prefix,
                                         trace.uses[u].astn.value)

\* C22: with version 3 the targets of a comprehension are cooked with
\* declared-global and declared-nonlocal sets that are empty: a bare-name
\* target is a NameBindsNode and is in the binding set of its for clause,
\* also when the function that holds the comprehension declared it global.
C22_ComprehensionContext ==
  (Cooked /\ python_version = 3) =>
    \A i \in 1..Len(CookedNodes) :
      LET c == CookedNodes[i]
      IN  c.t = "CompForNode" =>
            \A k \in 1..Len(NamesIn(c.for_exprlist)) :
              LET n == NamesIn(c.for_exprlist)[k]
              IN  /\ n.t = "NameBindsNode"
                  /\ InNames(Get(cooked.dicts, c.scope_bindings), n.name.value)
                  /\ \A v \in 1..Len(cooked.visits) :
                       cooked.visits[v].astn = n.name
                         => /\ cooked.visits[v].global_vars = <<>>
                            /\ cooked.visits[v].nonlocal_vars = <<>>

\* the scopes e and f of the resolver are functions, none inside the other
SiblingFunctions(e, f) ==
  /\ e.kind = "FuncDefStmt" /\ f.kind = "FuncDefStmt"
  /\ ~StartsWith(e.prefix, f.prefix) /\ ~StartsWith(f.prefix, e.prefix)

\* C23: a lookup changes no map but the innermost of the ctx it is made in;
\* the maps of the ctx that holds a function, a lambda, a class or (version
\* 3) a comprehension are, when the child made for it is done with, what
\* they were when the child was made; and a name put in the frame of one
\* function by a lookup that did not find it is in no map of a lookup made
\* in a sibling function, where the same name gets another FQN.
C23_InnermostWrites ==
  Resolved =>
    /\ \A i \in 1..Len(trace.uses) :
         /\ Len(trace.uses[i].after) = Len(trace.uses[i].before)
         /\ \A k \in 2..Len(trace.uses[i].before) :
              trace.uses[i].after[k] = trace.uses[i].before[k]
    /\ \A i \in 1..Len(trace.pops) :
         (trace.pops[i].kind = "CompForNode" => python_version = 3)
           => trace.pops[i].after = trace.pops[i].before
    /\ \A i, j \in 1..Len(trace.uses) : \A e, f \in 1..Len(trace.scopes) :
         LET u == trace.uses[i]
             w == trace.uses[j]
         IN  (/\ ~u.found
              /\ u.fqn_dot = trace.scopes[e].prefix
              /\ w.fqn_dot = trace.scopes[f].prefix
              /\ SiblingFunctions(trace.scopes[e], trace.scopes[f]))
             => /\ \A k \in 1..Len(w.before) :
                     \A x \in 1..Len(w.before[k]) : w.before[k][x].v # u.fqn
                /\ w.astn.value = u.astn.value => w.fqn # u.fqn

\* two functions side by side with the same unbound name in their bodies:
\* each lookup misses, and the two FQNs differ
C23_Witness ==
  /\ Resolved /\ source.kind = "twins" /\ source.a = source.b
  /\ \E i, j \in 1..Len(trace.uses) :
       /\ trace.uses[i].astn.lineno = 2 /\ trace.uses[j].astn.lineno = 4
       /\ ~trace.uses[i].found /\ ~trace.uses[j].found
       /\ trace.uses[i].fqn # trace.uses[j].fqn
  /\ Len(trace.pops) = 4

(***************************************************************************)
(* The scopes of the cook.                                                 *)
(***************************************************************************)
\* the nodes that open a scope: the file, the classes, the functions and
\* the lambdas
ScopeNodes ==
  LET IsScope(n) == n.t \in {"FileInput", "ClassDefStmt", "FuncDefStmt"}
  IN  SelectSeq(CookedNodes, IsScope)
ScopeRefs == {ScopeNodes[i].scope_bindings : i \in 1..Len(ScopeNodes)}

\* the names of the global and nonlocal statements of the file
Declared ==
  LET IsDecl(n) == n.t \in {"GlobalStmt", "NonLocalStmt"}
      decls == SelectSeq(CookedNodes, IsDecl)
  IN  UNION {{decls[i].items[j] : j \in 1..Len(decls[i].items)} :
             i \in 1..Len(decls)}

\* the names of the parameters of the function d
ParameterNames(d) ==
  [i \in 1..Len(d.parameters) |-> d.parameters[i].items[1].items[1]]

\* C24: the file, each class, each function and each lambda has binding,
\* global and nonlocal sets of its own that start empty: a name in the
\* binding set of a scope was registered by a name that occurs directly in
\* that scope, a visit finds in the three sets only what was registered or
\* declared in the same scope before, the parameters of a function are in
\* its own binding set, and a name in binding position is a reference
\* exactly when its own scope declared it before.
C24_ScopeIsolation ==
  Cooked =>
    /\ \A i, j \in 1..Len(ScopeNodes) :
         i # j => ScopeNodes[i].scope_bindings # ScopeNodes[j].scope_bindings
    /\ \A i \in 1..Len(ScopeNodes) :
         LET ref == ScopeNodes[i].scope_bindings
             names == Get(cooked.dicts, ref)
         IN  \A k \in 1..Len(names) :
               \E v \in 1..Len(cooked.visits) :
                 /\ cooked.visits[v].value = names[k]
                 /\ cooked.visits[v].cls = "NameBindsNode"
                 /\ OccursIn(cooked.visits[v].astn, ref)
    /\ \A v \in 1..Len(cooked.visits) :
         LET visit == cooked.visits[v]
             DeclaredBefore(n) ==
               \E d \in Declared :
                 /\ d.name.value = n
                 /\ d.scope = visit.scope
                 /\ d.name.lineno < visit.astn.lineno
                 /\ OccursIn(d.name, visit.scope)
         IN  visit.scope \in ScopeRefs =>
               /\ \A k \in 1..Len(visit.before) :
                    \E w \in 1..(v - 1) :
                      /\ cooked.visits[w].scope = visit.scope
                      /\ cooked.visits[w].value = visit.before[k]
               /\ \A k \in 1..Len(visit.global_vars) :
                    DeclaredBefore(visit.global_vars[k])
               /\ \A k \in 1..Len(visit.nonlocal_vars) :
                    DeclaredBefore(visit.nonlocal_vars[k])
               /\ visit.cls = "NameRefNode" <=> DeclaredBefore(visit.value)
    /\ \A i \in 1..Len(ScopeNodes) :
         ScopeNodes[i].t = "FuncDefStmt" =>
           LET names == ParameterNames(ScopeNodes[i])
           IN  \A k \in 1..Len(names) :
                 /\ names[k].t = "NameBindsNode"
                 /\ names[k].scope = ScopeNodes[i].scope_bindings
                 /\ InNames(Get(cooked.dicts, names[k].scope), names[k].name.value)

\* the node is a bare name cooked as a binding and registered in the
\* binding set of the scope it was cooked in
BoundAndRegistered(n) ==
  /\ n.t = "NameBindsNode"
  /\ InNames(Get(cooked.dicts, n.scope), n.name.value)

\* C25: the target of an augmented assignment and the target after `as` of
\* a with item, when bare names, are cooked as bindings and are registered
\* in the binding set of the current scope.
C25_AugmentedAndWithTargets ==
  Cooked =>
    \A i \in 1..Len(CookedNodes) :
      LET n == CookedNodes[i]
      IN  /\ (n.t = "AugAssignStmt" /\ n.items[1].t \in {"NameBindsNode", "NameRefNode"})
               => BoundAndRegistered(n.items[1])
          /\ (n.t = "WithItemNode" /\ n.items[2].t \in {"NameBindsNode", "NameRefNode"})
               => BoundAndRegistered(n.items[2])

\* the bare names of a target pattern: the target itself, or the items of
\* a tuple or list pattern, nested or starred
RECURSIVE PatternNames(_)
PatternNames(n) ==
  LET RECURSIVE All(_)
      All(items) ==
        IF items = <<>> THEN <<>> ELSE PatternNames(Head(items)) \o All(Tail(items))
  IN  CASE n.t \in {"NameBindsNode", "NameRefNode"} -> <<n>>
        [] n.t \in {"ExprListNode", "ListMakerNode"} -> All(n.items)
        [] OTHER -> <<>>

\* the files that are one assignment to a pattern of names
PatternFiles == {"unpack", "listpat", "starpat"}

\* C26: the cook of an assignment with one or more targets does not fail;
\* every bare name of a target pattern (direct, in a nested or
\* parenthesized tuple, in a bracketed list, or starred) is cooked as a
\* binding and registered in the binding set of the current scope, unless
\* that scope declared it global or nonlocal, and a bare name that is the
\* right-most expression is cooked as a reference.
C26_AssignmentTargets ==
  /\ ~(pc = "failed" /\ source.kind \in PatternFiles)
  /\ Cooked =>
       \A i \in 1..Len(CookedNodes) :
         LET n == CookedNodes[i]
             last == Len(n.items)
         IN  n.t = "AssignMultipleExprStmt" =>
               /\ \A k \in 1..(last - 1) :
                    LET names == PatternNames(n.items[k])
                    IN  \A j \in 1..Len(names) :
                          \/ BoundAndRegistered(names[j])
                          \/ \E d \in Declared :
                               /\ d.name.value = names[j].name.value
                               /\ d.scope = names[j].scope
               /\ n.items[last].t # "NameBindsNode"

\* the targets of the assignments that are an atom with trailers
TrailerTargets ==
  LET IsAssign(n) == n.t = "AssignMultipleExprStmt"
      assigns == SelectSeq(CookedNodes, IsAssign)
      TargetsOfAssign(n) == {n.items[k] : k \in 1..(Len(n.items) - 1)}
  IN  {n \in UNION {TargetsOfAssign(assigns[i]) : i \in 1..Len(assigns)} :
         n.t = "AtomTrailerNode"}

\* C27: the cook of an assignment to an attribute chain or to a subscript
\* adds no name to a binding set: no name of the target is cooked in
\* binding mode, the head and the names in a subscript are references,
\* and of the attribute segments only a final one binds.
C27_AttributeAndSubscriptTargets ==
  Cooked =>
    \A target \in TrailerTargets :
      LET nodes == Nodes(target)
          last == Len(target.items)
      IN  /\ \A i \in 1..Len(nodes) :
               /\ nodes[i].t # "NameBindsNode"
               /\ nodes[i].t \in {"NameRefNode", "NameRawNode"} =>
                    \A v \in 1..Len(cooked.visits) :
                      cooked.visits[v].astn # nodes[i].name
          /\ target.items[1].t = "NameRefNode"
          /\ \A k \in 2..last :
               target.items[k].t = "DotNameTrailerNode" =>
                 /\ target.items[k].binds = (k = last)
                 /\ target.items[k].name.t = "NameRawNode"

C27_Witness ==
  /\ Cooked /\ source.kind = "attrs"
  /\ \A i \in 1..Len(cooked.dicts) : cooked.dicts[i].v = <<>>
  /\ \E target \in TrailerTargets :
       /\ Len(target.items) = 3
       /\ target.items[2].t = "DotNameTrailerNode" /\ ~target.items[2].binds
       /\ target.items[3].t = "DotNameTrailerNode" /\ target.items[3].binds
  /\ \E target \in TrailerTargets :
       /\ Len(target.items) = 3
       /\ target.items[2].t = "DotNameTrailerNode" /\ ~target.items[2].binds
       /\ target.items[3].t = "RawSubscriptListNode"
       /\ \E i \in 1..Len(NamesIn(target.items[3])) :
            NamesIn(target.items[3])[i].t = "NameRefNode"
  /\ \E target \in TrailerTargets :
       Len(target.items) = 2 /\ target.items[2].t = "RawSubscriptListNode"

\* the place of the name k in names
IndexOf(names, k) == CHOOSE i \in 1..Len(names) : names[i] = k

\* the visit v registered, before the declaration d of its scope, the name
\* that d declares
RegisteredBefore(v, d) ==
  /\ v.cls = "NameBindsNode"
  /\ v.value = d.name.value
  /\ v.scope = d.scope
  /\ v.astn.lineno < d.name.lineno

\* C28: a global or nonlocal declaration of a name that its scope has
\* registered already leaves the name in the binding set, at the place it
\* had; the occurrences before the declaration stay bindings, and the
\* occurrences in binding position after it are references that leave the
\* set as it was.
C28_LateDeclaration ==
  Cooked =>
    \A d \in Declared : \A v \in 1..Len(cooked.visits) :
      RegisteredBefore(cooked.visits[v], d) =>
        LET names == Get(cooked.dicts, d.scope)
            n == d.name.value
        IN  /\ InNames(names, n)
            /\ IndexOf(names, n) = IndexOf(cooked.visits[v].after, n)
            /\ \A i \in 1..Len(CookedNodes) :
                 CookedNodes[i].t \in {"NameBindsNode", "NameRefNode"}
                 /\ CookedNodes[i].name = cooked.visits[v].astn
                 => CookedNodes[i].t = "NameBindsNode"
            /\ \A w \in 1..Len(cooked.visits) :
                 /\ cooked.visits[w].value = n
                 /\ cooked.visits[w].scope = d.scope
                 /\ cooked.visits[w].astn.lineno > d.name.lineno
                 => /\ cooked.visits[w].cls = "NameRefNode"
                    /\ cooked.visits[w].after = cooked.visits[w].before
                    /\ InNames(cooked.visits[w].after, n)

C28_Witness ==
  /\ Cooked /\ source.kind = "late_global"
  /\ source.a = source.b /\ source.c # source.a
  /\ \E d \in Declared :
       /\ Get(cooked.dicts, d.scope) = <<source.a, source.c>>
       /\ \E v, w \in 1..Len(cooked.visits) :
            /\ RegisteredBefore(cooked.visits[v], d)
            /\ cooked.visits[w].value = d.name.value
            /\ cooked.visits[w].astn.lineno > d.name.lineno
            /\ cooked.visits[w].cls = "NameRefNode"

\* the files with a def or a class of a name declared global
DeclaredDefFiles == {"def_global", "class_global"}

\* C29: where a scope declared a name global or nonlocal, the cook of a
\* later def or class of that name in the scope does not fail, the name of
\* the definition is cooked as a reference and it is not added to the
\* binding set of the scope.
C29_DeclaredDefinitions ==
  /\ ~(pc = "failed" /\ source.kind \in DeclaredDefFiles)
  /\ Cooked =>
       \A i \in 1..Len(CookedNodes) :
         LET n == CookedNodes[i]
         IN  (/\ n.t \in {"FuncDefStmt", "ClassDefStmt"}
              /\ \E d \in Declared :
                   /\ d.name.value = n.name.name.value
                   /\ d.scope = n.name.scope
                   /\ d.name.lineno < n.name.name.lineno)
             => /\ n.name.t = "NameRefNode"
                /\ ~InNames(Get(cooked.dicts, n.name.scope), n.name.name.value)

\* the first segments of the dotted names imported without `as`
ImportedHeads ==
  LET IsImport(n) == n.t = "ImportDottedAsNameNode" /\ Len(n.items) = 1
      imports == SelectSeq(CookedNodes, IsImport)
  IN  {imports[i].items[1].items[1] : i \in 1..Len(imports)}

\* C30: an import of a dotted name without `as` registers the first
\* segment of the name in the binding set of the current scope, and a
\* later reference to it, in that scope or in a scope within it that does
\* not bind the name, has the FQN of that scope's prefix + the name.
C30_DottedImportBinding ==
  /\ Cooked =>
       \A head \in ImportedHeads :
         InNames(Get(cooked.dicts, head.scope), head.name.value)
  /\ Resolved =>
       \A head \in ImportedHeads :
         \A i \in 1..Len(ResolvedNodes) : \A s \in 1..Len(trace.scopes) :
           LET n == ResolvedNodes[i]
           IN  (/\ n.t = "NameRefNode"
                /\ n.name.value = head.name.value
                /\ n.name.lineno > head.name.lineno
                /\ trace.scopes[s].ref = head.scope
                /\ \A k \in 1..Len(cooked.dicts) :
                     InNames(cooked.dicts[k].v, n.name.value)
                     => cooked.dicts[k].k = head.scope)
               => n.fqn = Dot(trace.scopes[s].prefix, n.name.value)

====
